---- MODULE Spec2Model ----
(***************************************************************************)
(* State-machine model of the blog platform backend: the blog, category,   *)
(* author and user collections, the bearer-token gate, the blog router's   *)
(* read and write handlers in their revisions, and the slug generator.     *)
(*                                                                         *)
(* Text is a sequence of one-character strings.  An optional request       *)
(* parameter or document field is a sequence of length 0 (absent) or 1.    *)
(* Time is counted in whole seconds since the epoch.                       *)
(***************************************************************************)
EXTENDS Integers, Sequences, FiniteSets, TLC

VARIABLES now, blogs, categories, authors, users, nextBlogId, nextRefId, nextUserId, resp, procs,
          conn, assets

vars == <<now, blogs, categories, authors, users, nextBlogId, nextRefId, nextUserId, resp, procs, conn, assets>>

---------------------------------------------------------------------------
(* Bounds of the model *)

StartTime == 1700000000
MaxTime == 1
MaxVisBlogs == 3
MaxSlugBlogs == 3
MaxRefBlogs == 1
MaxUsers == 3
MaxRefs == 3
MaxAuthDocs == 1
MaxSeed == 25
MaxLimit == 10
MaxPage == 4
MaxProcs == 1
MaxConcBlogs == 1

---------------------------------------------------------------------------
(* Generic helpers *)

None == <<>>

Some(x) == <<x>>

IsSome(o) == Len(o) > 0

Min(a, b) == IF a < b THEN a ELSE b

Max(a, b) == IF a > b THEN a ELSE b

\* mutant: the page count rounded down
CeilDiv_Floor(n, d) == n \div d

\* Math.ceil(n / d) for n >= 0 and d >= 1
CeilDiv(n, d) == (n + d - 1) \div d

Range(s) == {s[i] : i \in 1..Len(s)}

RECURSIVE FilterSeq(_, _)
FilterSeq(s, keep) ==
  IF s = <<>> THEN <<>>
  ELSE IF Head(s) \in keep THEN <<Head(s)>> \o FilterSeq(Tail(s), keep)
       ELSE FilterSeq(Tail(s), keep)

---------------------------------------------------------------------------
(* Slug generator *)

LowerLetters == {"a", "b", "c", "d", "h", "i", "n", "p", "t"}

UpperLetters == {"A", "B", "H"}

Digits == {"0", "1", "2", "3", "4", "5", "6", "7", "8", "9"}

Whitespace == {" "}

WordChars == LowerLetters \cup UpperLetters \cup Digits \cup {"_"}

ToLowerChar(c) ==
  CASE c = "A" -> "a"
    [] c = "B" -> "b"
    [] c = "H" -> "h"
    [] OTHER -> c

ToLowerCase(t) == [i \in 1..Len(t) |-> ToLowerChar(t[i])]

RECURSIVE TrimStart(_, _)
TrimStart(t, cs) ==
  IF t # <<>> /\ Head(t) \in cs THEN TrimStart(Tail(t), cs) ELSE t

RECURSIVE TrimEnd(_, _)
TrimEnd(t, cs) ==
  IF t # <<>> /\ t[Len(t)] \in cs THEN TrimEnd(SubSeq(t, 1, Len(t) - 1), cs) ELSE t

Trim(t) == TrimEnd(TrimStart(t, Whitespace), Whitespace)

\* replace(/X+/g, '-') for a character class X: every maximal run becomes one hyphen
RECURSIVE ReplaceRuns(_, _)
ReplaceRuns(t, cs) ==
  IF t = <<>> THEN <<>>
  ELSE IF Head(t) \in cs THEN <<"-">> \o ReplaceRuns(TrimStart(t, cs), cs)
       ELSE <<Head(t)>> \o ReplaceRuns(Tail(t), cs)

RECURSIVE ReplaceAmp(_)
ReplaceAmp(t) ==
  IF t = <<>> THEN <<>>
  ELSE IF Head(t) = "&" THEN <<"-", "a", "n", "d", "-">> \o ReplaceAmp(Tail(t))
       ELSE <<Head(t)>> \o ReplaceAmp(Tail(t))

\* replace(/\-\-+/g, '-'): a run of two or more hyphens becomes one hyphen
CollapseHyphens(t) == ReplaceRuns(t, {"-"})

\* mutant: the non-word characters are removed last, after the hyphen clean-up
slugify_StripLast(text) ==
  LET lowered == ToLowerCase(text)
      trimmed == Trim(lowered)
      spaced == ReplaceRuns(trimmed, Whitespace)
      amped == ReplaceAmp(spaced)
      collapsed == CollapseHyphens(amped)
      cut == TrimEnd(TrimStart(collapsed, {"-"}), {"-"})
  IN FilterSeq(cut, WordChars \cup {"-"})

slugify(text) ==
  LET lowered == ToLowerCase(text)
      trimmed == Trim(lowered)
      spaced == ReplaceRuns(trimmed, Whitespace)
      amped == ReplaceAmp(spaced)
      stripped == FilterSeq(amped, WordChars \cup {"-"})
      collapsed == CollapseHyphens(stripped)
  IN TrimEnd(TrimStart(collapsed, {"-"}), {"-"})

DigitChar(d) == <<"0", "1", "2", "3", "4", "5", "6", "7", "8", "9">>[d + 1]

\* Math.floor(Date.now() / 1000).toString().slice(-6), for a clock in seconds
TimestampSuffix(sec) ==
  [i \in 1..6 |-> DigitChar((sec \div (10 ^ (6 - i))) % 10)]

---------------------------------------------------------------------------
(* Documents, tokens and responses *)

\* A bearer token: 0 is no Authorization header, -1 a token that jwt.verify
\* rejects, u > 0 a token signed for user id u.
NoToken == 0

BadToken == -1

TokenFor(u) == u

\* Role is set to 'user' by default in the model
DefaultRole == "user"

Revisions == {"r003", "r004", "routes"}

NoQuery == [status |-> None, limit |-> None, page |-> None, search |-> None]

NoTags == [isArray |-> TRUE, items |-> <<>>, text |-> <<>>]

\* a multipart request body in which every field is omitted
NoBody ==
  [title |-> None, content |-> None, excerpt |-> None, imageAlt |-> None,
   categoryId |-> None, authorId |-> None, tags |-> None, status |-> None,
   isFeatured |-> None, publishDate |-> None, slug |-> None, file |-> FALSE,
   metaDescription |-> None, metaKeywords |-> None, imageUrl |-> None]

\* the connection state of the process: which connect routine the process
\* runs, its isConnected flag, the cached connection and promise, the
\* readyState of the mongoose connection (0 disconnected, 1 connected,
\* 2 connecting, 3 disconnecting), how often mongoose.connect and
\* mongoose.disconnect were called, whether the cached promise has rejected,
\* and whether the store can be reached
NoConn ==
  [impl |-> "none", isConnected |-> FALSE, cachedConn |-> FALSE, cachedPromise |-> FALSE,
   readyState |-> 0, connects |-> 0, disconnects |-> 0, rejected |-> FALSE,
   reachable |-> TRUE]

\* the external image service: current holds the id of every stored or deleted
\* blog whose current image (imageMetadata.cloudinaryPublicId) the service
\* stores, orphaned says that the service stores an image that is no stored
\* blog's current one
NoAssets == [current |-> {}, orphaned |-> FALSE]

\* upload.single('image') has stored the request's file and the request ended
\* without a blog referring to it, or a blog's reference moved off its image
Orphaned(as) == [as EXCEPT !.orphaned = TRUE]

\* the stored file became the image of blog id
Holding(as, id) == [as EXCEPT !.current = @ \cup {id}]

\* the state of the image service after blog id was deleted: released says
\* that cloudinary.uploader.destroy ran and succeeded
Released(as, id, had, released) ==
  [current |-> as.current \ {id}, orphaned |-> as.orphaned \/ (had /\ ~released)]

\* no error: the store operations of the request succeeded
NoError == [name |-> "none", timedOut |-> FALSE]

NoResp ==
  [op |-> "none", rev |-> "none", status |-> 0, at |-> 0, tok |-> NoToken, err |-> NoError,
   fields |-> {}, blogs |-> <<>>, totalCount |-> 0, currentPage |-> 0,
   totalPages |-> 0, q |-> NoQuery, target |-> 0, slug |-> <<>>,
   role |-> "", userId |-> 0, blogsCount |-> 0, body |-> NoBody, asset |-> "none",
   path |-> <<>>]

UserById(us, id) == {u \in us : u.id = id}

BlogIds(bs) == {bs[i].id : i \in 1..Len(bs)}

BlogSet(bs) == Range(bs)

BlogById(bs, id) == {b \in Range(bs) : b.id = id}

SlugExists(bs, s) == \E b \in Range(bs) : b.slug = s

RemoveBlog(bs, id) == FilterSeq(bs, {b \in Range(bs) : b.id # id})

---------------------------------------------------------------------------
(* Bearer-token gate *)

\* mutant: the verified token trusted without looking its user up
authenticate_TokenOnly(tok, us) ==
  IF tok = NoToken THEN [status |-> 401, user |-> None]
  ELSE IF tok = BadToken THEN [status |-> 401, user |-> None]
  ELSE IF UserById(us, tok) = {}
  THEN [status |-> 0, user |-> Some([id |-> tok, email |-> "", role |-> DefaultRole])]
  ELSE [status |-> 0, user |-> Some(CHOOSE u \in UserById(us, tok) : TRUE)]

\* authenticate: 401 without a token, with a token that does not verify, and
\* with a verified token whose user is not stored; otherwise the user is set
authenticate(tok, us) ==
  IF tok = NoToken THEN [status |-> 401, user |-> None]
  ELSE IF tok = BadToken THEN [status |-> 401, user |-> None]
  ELSE IF UserById(us, tok) = {} THEN [status |-> 401, user |-> None]
  ELSE [status |-> 0, user |-> Some(CHOOSE u \in UserById(us, tok) : TRUE)]

\* mutant: the admin check passing every authenticated user
authorizeAdmin_AnyUser(user) ==
  IF IsSome(user) THEN 0 ELSE 403

\* authorizeAdmin: 403 unless req.user.role === 'admin'
authorizeAdmin(user) ==
  IF IsSome(user) /\ user[1].role = "admin" THEN 0 ELSE 403

\* the two middlewares in sequence, as every admin route mounts them:
\* 0 when the request passes, else the status of the rejection
AdminGate(tok, us) ==
  LET a == authenticate(tok, us)
  IN IF a.status # 0 THEN a.status ELSE authorizeAdmin(a.user)

---------------------------------------------------------------------------
(* Query/filter builder of the listing endpoints *)

DefaultCap == 100

DefaultLimit == 20

\* the listing routes each revision of the blog router serves
Endpoints(rev) ==
  CASE rev = "r003" -> {"general", "scheduled", "published", "featured"}
    [] rev = "r004" -> {"general", "published", "featured"}
    [] OTHER -> {"general"}

\* mutant: the date clause without its $exists: false branch
DateClause_DatedOnly(b, at) == IsSome(b.publishDate) /\ b.publishDate[1] <= at

\* $or: [{ publishDate: { $lte: currentDate } }, { publishDate: { $exists: false } }]
DateClause(b, at) ==
  \/ (IsSome(b.publishDate) /\ b.publishDate[1] <= at)
  \/ ~IsSome(b.publishDate)

\* { $regex: term, $options: "i" }: the term occurs in the text, in any case
RegexMatch(term, text) ==
  \E i \in 1..(Len(text) - Len(term) + 1) :
    ToLowerCase(SubSeq(text, i, i + Len(term) - 1)) = ToLowerCase(term)

\* the words of a text, as the text index tokenizes it on whitespace
RECURSIVE Words(_, _)
Words(t, word) ==
  IF t = <<>> THEN (IF word = <<>> THEN {} ELSE {word})
  ELSE IF Head(t) \in Whitespace
       THEN (IF word = <<>> THEN {} ELSE {word}) \cup Words(Tail(t), <<>>)
       ELSE Words(Tail(t), Append(word, Head(t)))

\* { $text: { $search: term } } on the index { title: 'text', content: 'text' }:
\* some word of the term is a word of the title or of the content, in any case
TextMatch(term, b) ==
  Words(ToLowerCase(term), <<>>)
    \cap (Words(ToLowerCase(b.title), <<>>) \cup Words(ToLowerCase(b.content), <<>>)) # {}

\* the keys of a filter object: status, isFeatured, publishDate: { $gt }, the
\* clause list under $or, the clause lists pushed to $and, and $text
NoFilter ==
  [status |-> None, isFeatured |-> FALSE, after |-> FALSE, or |-> "none", and |-> {},
   text |-> FALSE]

\* the filter before the search is looked at
BaseFilter(endpoint, rev, q) ==
  CASE endpoint = "general" -> [NoFilter EXCEPT !.status = q.status]
    [] endpoint = "scheduled" -> [NoFilter EXCEPT !.status = Some("published"), !.after = TRUE]
    [] endpoint = "published" -> [NoFilter EXCEPT !.status = Some("published"), !.or = "date"]
    [] endpoint = "featured" ->
         IF rev = "r004"
         THEN [NoFilter EXCEPT !.isFeatured = TRUE, !.status = Some("published"), !.or = "date"]
         ELSE LET st == IF IsSome(q.status) THEN q.status[1] ELSE "published"
              IN [NoFilter EXCEPT !.isFeatured = TRUE, !.status = Some(st),
                                  !.and = IF st = "published" THEN {"date"} ELSE {}]

\* req.query.search is truthy
HasSearch(q) == IsSome(q.search) /\ q.search[1] # <<>>

\* the assignments the handler makes for a search parameter
SearchFilter(endpoint, rev, q, filter) ==
  IF ~HasSearch(q) THEN filter
  ELSE CASE endpoint = "general" /\ rev = "r003" ->
              IF Len(q.search[1]) > 2 THEN [filter EXCEPT !.text = TRUE]
              ELSE [filter EXCEPT !.or = "search"]
         [] endpoint = "general" /\ rev = "r004" ->
              IF Len(q.search[1]) > 2 THEN [filter EXCEPT !.or = "search"] ELSE filter
         [] endpoint = "general" -> [filter EXCEPT !.or = "search"]
         [] endpoint = "published" -> [filter EXCEPT !.and = @ \cup {"search"}]
         [] OTHER -> filter

\* one list of alternatives of the filter, on a stored blog
OrClause(kind, q, at, b) ==
  CASE kind = "date" -> DateClause(b, at)
    [] kind = "search" -> RegexMatch(q.search[1], b.title) \/ RegexMatch(q.search[1], b.content)
    [] OTHER -> TRUE

\* the filter object the handler builds, as a predicate on a stored blog
ListFilter(endpoint, rev, q, at, b) ==
  LET filter == SearchFilter(endpoint, rev, q, BaseFilter(endpoint, rev, q))
  IN /\ (IsSome(filter.status) => b.status = filter.status[1])
     /\ (filter.isFeatured => b.isFeatured)
     /\ (filter.after => (IsSome(b.publishDate) /\ b.publishDate[1] > at))
     /\ OrClause(filter.or, q, at, b)
     /\ \A kind \in filter.and : OrClause(kind, q, at, b)
     /\ (filter.text => TextMatch(q.search[1], b))

\* a missing sort field orders as null, below every date
DateKey(d) == IF IsSome(d) THEN d[1] ELSE -1

\* sort key per endpoint, negated for a descending order
SortKey(endpoint, b) ==
  CASE endpoint = "general" -> 0 - b.createdAt
    [] endpoint = "scheduled" -> DateKey(b.publishDate)
    [] OTHER -> 0 - DateKey(b.publishDate)

\* insert x behind every element whose key is not larger: ties keep storage order
RECURSIVE InsertByKey(_, _, _)
InsertByKey(x, sorted, endpoint) ==
  IF sorted = <<>> THEN <<x>>
  ELSE IF SortKey(endpoint, Head(sorted)) <= SortKey(endpoint, x)
       THEN <<Head(sorted)>> \o InsertByKey(x, Tail(sorted), endpoint)
       ELSE <<x>> \o sorted

RECURSIVE SortBlogs(_, _)
SortBlogs(bs, endpoint) ==
  IF bs = <<>> THEN <<>>
  ELSE InsertByKey(bs[Len(bs)], SortBlogs(SubSeq(bs, 1, Len(bs) - 1), endpoint), endpoint)

\* query.skip(skip).limit(limit) on the sorted matches
Window(s, skip, limit) == SubSeq(s, skip + 1, Min(skip + limit, Len(s)))

\* if (req.query.limit): a supplied limit is a non-empty string
HasLimit(q) == IsSome(q.limit)

\* parseInt(req.query.page) || 1
PageOf(q) == IF q.page = None \/ q.page[1] = 0 THEN 1 ELSE q.page[1]

\* parseInt(req.query.limit), and parseInt(req.query.limit) || 20 in r004's general list
LimitOf(endpoint, rev, q) ==
  IF endpoint = "general" /\ rev = "r004"
  THEN (IF q.limit = None \/ q.limit[1] = 0 THEN DefaultLimit ELSE q.limit[1])
  ELSE q.limit[1]

\* whether the handler paginates and reports currentPage and totalPages
Paginates(endpoint, rev, q) ==
  IF endpoint = "general" /\ rev = "r004" THEN TRUE ELSE HasLimit(q)

\* the response of a listing handler over the stored blogs bs at time at
ListResponse(endpoint, rev, q, at, bs) ==
  LET matches == FilterSeq(bs, {b \in Range(bs) : ListFilter(endpoint, rev, q, at, b)})
      sorted == SortBlogs(matches, endpoint)
      paged == Paginates(endpoint, rev, q)
      page == PageOf(q)
      limit == IF paged THEN LimitOf(endpoint, rev, q) ELSE 0
      skip == (page - 1) * limit
      docs == IF paged THEN Window(sorted, skip, limit)
              ELSE IF endpoint = "general" /\ rev = "r003"
                   THEN Window(sorted, 0, DefaultCap)
                   ELSE sorted
      totalCount == IF endpoint = "general" /\ rev = "r003" /\ q.status = None /\ ~HasSearch(q)
                    THEN Len(bs)
                    ELSE Len(matches)
      base == [NoResp EXCEPT !.op = endpoint, !.rev = rev, !.q = q, !.at = at]
  IN IF paged /\ skip < 0
     THEN [base EXCEPT !.status = 500, !.fields = {"success", "message", "error"}]
     ELSE IF paged
     THEN [base EXCEPT !.status = 200,
                       !.fields = {"success", "blogs", "totalCount", "currentPage", "totalPages"},
                       !.blogs = [i \in 1..Len(docs) |-> docs[i].id],
                       !.totalCount = totalCount,
                       !.currentPage = page,
                       !.totalPages = CeilDiv(totalCount, limit)]
     ELSE [base EXCEPT !.status = 200,
                       !.fields = {"success", "blogs", "totalCount"},
                       !.blogs = [i \in 1..Len(docs) |-> docs[i].id],
                       !.totalCount = totalCount]

\* GET /api/blogs, /published, /featured (public) and /scheduled (admin only)
ListBlogs(endpoint, rev, q, tok) ==
  /\ endpoint \in Endpoints(rev)
  /\ LET gate == IF endpoint = "scheduled" THEN AdminGate(tok, users) ELSE 0
     IN resp' = IF gate # 0
                THEN [NoResp EXCEPT !.op = endpoint, !.rev = rev, !.q = q, !.at = now,
                                    !.tok = tok, !.status = gate, !.fields = {"message"}]
                ELSE [ListResponse(endpoint, rev, q, now, blogs) EXCEPT !.tok = tok]
  /\ UNCHANGED <<now, blogs, categories, authors, users, nextBlogId, nextRefId, nextUserId, procs, conn, assets>>

---------------------------------------------------------------------------
(* Single-item lookups *)

\* mutant: the slug lookup without its date check
NotYetVisible_Never(b, at) == FALSE

\* blog.status === "published" && blog.publishDate > currentDate
\* (a missing publishDate compares false)
NotYetVisible(b, at) ==
  b.status = "published" /\ IsSome(b.publishDate) /\ b.publishDate[1] > at

\* GET /api/blogs/slug/:slug
SlugResponse(rev, slug, at, bs) ==
  LET found == {b \in Range(bs) : b.slug = slug}
      base == [NoResp EXCEPT !.op = "bySlug", !.rev = rev, !.slug = slug, !.at = at]
      hidden == IF rev = "routes" THEN FALSE
                ELSE \E b \in found : NotYetVisible(b, at)
  IN IF found = {} \/ hidden
     THEN [base EXCEPT !.status = 404, !.fields = {"success", "message"}]
     ELSE [base EXCEPT !.status = 200, !.fields = {"success", "blog"},
                       !.target = (CHOOSE b \in found : TRUE).id]

GetBySlug(rev, slug) ==
  /\ resp' = SlugResponse(rev, slug, now, blogs)
  /\ UNCHANGED <<now, blogs, categories, authors, users, nextBlogId, nextRefId, nextUserId, procs, conn, assets>>

\* the clock advances by one second
Tick ==
  /\ now < StartTime + MaxTime
  /\ now' = now + 1
  /\ UNCHANGED <<blogs, categories, authors, users, nextBlogId, nextRefId, nextUserId, resp, procs, conn, assets>>

---------------------------------------------------------------------------
(* Blog schema hooks and the create handler *)

\* !x for an optional text: undefined or the empty string
Falsy(o) == o = None \/ o[1] = <<>>

\* !id for an optional reference: undefined, or 0 for the empty string
NoRef(o) == o = None \/ o[1] = 0

\* text.split(","): the pieces between commas
RECURSIVE SplitComma(_, _)
SplitComma(t, piece) ==
  IF t = <<>> THEN <<piece>>
  ELSE IF Head(t) = "," THEN <<piece>> \o SplitComma(Tail(t), <<>>)
       ELSE SplitComma(Tail(t), Append(piece, Head(t)))

NonEmptyTrimmed(items) == FilterSeq(items, {x \in Range(items) : Trim(x) # <<>>})

\* the handler's formattedTags: an array keeps its elements whose trim is
\* non-empty, a string is split on commas, trimmed and stripped of empty pieces
FormatTags(tags) ==
  IF tags.isArray THEN NonEmptyTrimmed(tags.items)
  ELSE LET pieces == SplitComma(tags.text, <<>>)
           trimmed == [i \in 1..Len(pieces) |-> Trim(pieces[i])]
       IN FilterSeq(trimmed, Range(trimmed) \ {<<>>})

\* !tags || (array of length 0) || (string whose trim is empty)
TagsMissing(o) ==
  \/ o = None
  \/ (o[1].isArray /\ o[1].items = <<>>)
  \/ (~o[1].isArray /\ Trim(o[1].text) = <<>>)

\* schema setters and validators: trim on title, excerpt, imageAlt and tags,
\* required on title, content, excerpt, imageAlt, tags elements, enum on status
SchemaValid(doc) ==
  /\ doc.title # <<>>
  /\ doc.content # <<>>
  /\ doc.excerpt # <<>>
  /\ doc.imageAlt # <<>>
  /\ \A i \in 1..Len(doc.tags) : doc.tags[i] # <<>>
  /\ doc.status \in {"draft", "published"}

\* pre('save'): a blog without a slug gets slugify(title), with a suffix of
\* the last six digits of the epoch seconds when that slug is already stored
PreSaveSlug(slug, title, bs, at) ==
  IF slug = <<>>
  THEN LET baseSlug == slugify(title)
       IN IF SlugExists(bs, baseSlug)
          THEN baseSlug \o <<"-">> \o TimestampSuffix(at)
          ELSE baseSlug
  ELSE slug

\* mutant: the slug path without its unique index
UniqueSlugIndex_NoIndex(bs, id, slug) == TRUE

\* slug: { unique: true }: the store refuses a second document with a stored slug
UniqueSlugIndex(bs, id, slug) ==
  \A b \in Range(bs) : b.id # id => b.slug # slug

\* blog.save() of a new document: validation, the pre-save hook, the insert
SaveNew(doc, bs, at) ==
  LET slug == PreSaveSlug(doc.slug, doc.title, bs, at)
      saved == [doc EXCEPT !.slug = slug, !.updatedAt = at]
  IN IF ~SchemaValid(doc) THEN [ok |-> FALSE, blogs |-> bs, doc |-> doc]
     ELSE IF doc.tags = <<>> THEN [ok |-> FALSE, blogs |-> bs, doc |-> doc]
     ELSE IF ~UniqueSlugIndex(bs, doc.id, slug) THEN [ok |-> FALSE, blogs |-> bs, doc |-> doc]
     ELSE [ok |-> TRUE, blogs |-> Append(bs, saved), doc |-> saved]

\* the status the create handler answers before it builds the document, 0 if none
CreateRejection(body, bs) ==
  IF ~body.file THEN 400
  ELSE IF Falsy(body.title) THEN 400
  ELSE IF Falsy(body.content) THEN 400
  ELSE IF Falsy(body.excerpt) THEN 400
  ELSE IF Falsy(body.imageAlt) THEN 400
  ELSE IF NoRef(body.categoryId) THEN 400
  ELSE IF NoRef(body.authorId) THEN 400
  ELSE IF TagsMissing(body.tags) THEN 400
  ELSE IF FormatTags(body.tags[1]) = <<>> THEN 400
  ELSE IF ~Falsy(body.slug) /\ SlugExists(bs, slugify(body.slug[1])) THEN 400
  ELSE 0

\* metaKeywords: an array as it is, a string split on commas and trimmed
FormatKeywords(kw) ==
  IF kw.isArray THEN kw.items
  ELSE LET pieces == SplitComma(kw.text, <<>>)
       IN [i \in 1..Len(pieces) |-> Trim(pieces[i])]

\* !metaKeywords: undefined or the empty string (an empty array is truthy)
NoKeywords(o) == o = None \/ (~o[1].isArray /\ o[1].text = <<>>)

\* req.file.path of an uploaded image, and the data URL the oldest router builds
UploadPath == <<"w">>

DataUrl == <<"d">>

\* new Blog({...}) of the create handler
NewBlog(body, id, userId, at) ==
  LET tags == FormatTags(body.tags[1])
  IN [id |-> id,
      title |-> Trim(body.title[1]),
      slug |-> IF Falsy(body.slug) THEN <<>> ELSE slugify(body.slug[1]),
      content |-> body.content[1],
      excerpt |-> Trim(body.excerpt[1]),
      imageAlt |-> Trim(body.imageAlt[1]),
      tags |-> [i \in 1..Len(tags) |-> Trim(tags[i])],
      categoryId |-> body.categoryId[1],
      authorId |-> body.authorId[1],
      author |-> userId,
      status |-> IF IsSome(body.status) THEN body.status[1] ELSE "published",
      isFeatured |-> (IsSome(body.isFeatured) /\ body.isFeatured[1]),
      publishDate |-> IF IsSome(body.publishDate) THEN body.publishDate ELSE Some(at),
      metaDescription |-> IF IsSome(body.metaDescription) THEN Trim(body.metaDescription[1]) ELSE <<>>,
      metaKeywords |-> IF NoKeywords(body.metaKeywords) THEN <<>>
                       ELSE LET kws == FormatKeywords(body.metaKeywords[1])
                            IN [i \in 1..Len(kws) |-> Trim(kws[i])],
      imageUrl |-> UploadPath,
      createdAt |-> at,
      updatedAt |-> at,
      cloudinaryPublicId |-> TRUE]

\* POST /api/blogs (admin only)
CreateBlog(tok, body) ==
  /\ LET gate == AdminGate(tok, users)
         rejected == CreateRejection(body, blogs)
         base == [NoResp EXCEPT !.op = "createBlog", !.rev = "r003", !.tok = tok, !.at = now,
                                 !.body = body]
         saved == SaveNew(NewBlog(body, nextBlogId, tok, now), blogs, now)
     IN IF gate # 0
        THEN /\ resp' = [base EXCEPT !.status = gate, !.fields = {"message"}]
             /\ UNCHANGED <<blogs, nextBlogId, assets>>
        ELSE IF rejected # 0
        THEN /\ resp' = [base EXCEPT !.status = rejected, !.fields = {"success", "message"}]
             /\ assets' = IF body.file THEN Orphaned(assets) ELSE assets
             /\ UNCHANGED <<blogs, nextBlogId>>
        ELSE IF ~saved.ok
        THEN /\ resp' = [base EXCEPT !.status = 500, !.fields = {"success", "message", "error"}]
             /\ assets' = Orphaned(assets)
             /\ UNCHANGED <<blogs, nextBlogId>>
        ELSE /\ resp' = [base EXCEPT !.status = 201, !.fields = {"success", "blog", "message", "optimization"},
                                     !.target = nextBlogId, !.slug = saved.doc.slug]
             /\ blogs' = saved.blogs
             /\ nextBlogId' = nextBlogId + 1
             /\ assets' = Holding(assets, nextBlogId)
  /\ UNCHANGED <<now, categories, authors, users, nextRefId, nextUserId, procs, conn>>

\* POST /api/blogs of the router revision that predates publishDate, saving
\* under the schema revision without a publishDate path
LegacyNewBlog(body, id, userId, at) ==
  LET pieces == IF body.tags = None THEN <<>>
                ELSE IF body.tags[1].isArray THEN body.tags[1].items
                ELSE IF body.tags[1].text = <<>> THEN <<>>
                ELSE SplitComma(body.tags[1].text, <<>>)
  IN [id |-> id,
      title |-> IF IsSome(body.title) THEN Trim(body.title[1]) ELSE <<>>,
      slug |-> <<>>,
      content |-> IF IsSome(body.content) THEN body.content[1] ELSE <<>>,
      excerpt |-> IF IsSome(body.excerpt) THEN Trim(body.excerpt[1]) ELSE <<>>,
      imageAlt |-> IF IsSome(body.imageAlt) THEN Trim(body.imageAlt[1]) ELSE <<>>,
      tags |-> [i \in 1..Len(pieces) |-> Trim(pieces[i])],
      categoryId |-> IF NoRef(body.categoryId) THEN 0 ELSE body.categoryId[1],
      authorId |-> IF NoRef(body.authorId) THEN 0 ELSE body.authorId[1],
      author |-> userId,
      status |-> IF IsSome(body.status) THEN body.status[1] ELSE "published",
      isFeatured |-> (IsSome(body.isFeatured) /\ body.isFeatured[1]),
      publishDate |-> None,
      metaDescription |-> IF IsSome(body.metaDescription) THEN Trim(body.metaDescription[1]) ELSE <<>>,
      metaKeywords |-> IF NoKeywords(body.metaKeywords) THEN <<>>
                       ELSE LET kws == FormatKeywords(body.metaKeywords[1])
                            IN [i \in 1..Len(kws) |-> Trim(kws[i])],
      imageUrl |-> IF body.file THEN DataUrl ELSE body.imageUrl[1],
      createdAt |-> at,
      updatedAt |-> at,
      cloudinaryPublicId |-> FALSE]

\* the older schema requires title and content only
LegacySaveNew(doc, bs, at) ==
  LET slug == PreSaveSlug(doc.slug, doc.title, bs, at)
      saved == [doc EXCEPT !.slug = slug, !.updatedAt = at]
  IN IF doc.title = <<>> \/ doc.content = <<>> \/ doc.status \notin {"draft", "published"}
     THEN [ok |-> FALSE, blogs |-> bs, doc |-> doc]
     ELSE IF ~UniqueSlugIndex(bs, doc.id, slug) THEN [ok |-> FALSE, blogs |-> bs, doc |-> doc]
     ELSE [ok |-> TRUE, blogs |-> Append(bs, saved), doc |-> saved]

LegacyCreateBlog(tok, body) ==
  /\ LET gate == AdminGate(tok, users)
         base == [NoResp EXCEPT !.op = "createBlog", !.rev = "routes", !.tok = tok, !.at = now,
                                 !.body = body]
         saved == LegacySaveNew(LegacyNewBlog(body, nextBlogId, tok, now), blogs, now)
     IN IF gate # 0
        THEN /\ resp' = [base EXCEPT !.status = gate, !.fields = {"message"}]
             /\ UNCHANGED <<blogs, nextBlogId>>
        ELSE IF ~body.file /\ Falsy(body.imageUrl)
        THEN /\ resp' = [base EXCEPT !.status = 400, !.fields = {"success", "message"}]
             /\ UNCHANGED <<blogs, nextBlogId>>
        ELSE IF ~saved.ok
        THEN /\ resp' = [base EXCEPT !.status = 500, !.fields = {"success", "message", "error"}]
             /\ UNCHANGED <<blogs, nextBlogId>>
        ELSE /\ resp' = [base EXCEPT !.status = 201, !.fields = {"success", "blog"},
                                     !.target = nextBlogId, !.slug = saved.doc.slug]
             /\ blogs' = saved.blogs
             /\ nextBlogId' = nextBlogId + 1
  /\ UNCHANGED <<now, categories, authors, users, nextRefId, nextUserId, procs, conn, assets>>

---------------------------------------------------------------------------
(* Blog update and delete handlers *)

\* mutant: the update handler without its look-up of the slug in other blogs
UpdateRejection_NoSlugCheck(body, blog, bs) ==
  IF body.title = Some(<<>>) THEN 400
  ELSE IF body.content = Some(<<>>) THEN 400
  ELSE IF body.excerpt = Some(<<>>) THEN 400
  ELSE IF body.imageAlt = Some(<<>>) THEN 400
  ELSE IF body.categoryId = Some(0) THEN 400
  ELSE IF body.authorId = Some(0) THEN 400
  ELSE IF IsSome(body.tags) /\ FormatTags(body.tags[1]) = <<>> THEN 400
  ELSE 0

\* the status the update handler answers before it assigns any field, 0 if none
UpdateRejection(body, blog, bs) ==
  IF /\ IsSome(body.slug)
     /\ body.slug[1] # <<>>
     /\ slugify(body.slug[1]) # blog.slug
     /\ \E b \in Range(bs) : b.id # blog.id /\ b.slug = slugify(body.slug[1])
  THEN 400
  ELSE IF body.title = Some(<<>>) THEN 400
  ELSE IF body.content = Some(<<>>) THEN 400
  ELSE IF body.excerpt = Some(<<>>) THEN 400
  ELSE IF body.imageAlt = Some(<<>>) THEN 400
  ELSE IF body.categoryId = Some(0) THEN 400
  ELSE IF body.authorId = Some(0) THEN 400
  ELSE IF IsSome(body.tags) /\ FormatTags(body.tags[1]) = <<>> THEN 400
  ELSE 0

\* the field assignments of the update handler on the fetched document
ApplyUpdate(body, blog) ==
  LET tags == IF IsSome(body.tags) THEN FormatTags(body.tags[1]) ELSE blog.tags
  IN [blog EXCEPT
        !.slug = IF IsSome(body.slug) /\ body.slug[1] # <<>>
                 THEN slugify(body.slug[1]) ELSE blog.slug,
        !.title = IF Falsy(body.title) THEN blog.title ELSE Trim(body.title[1]),
        !.content = IF Falsy(body.content) THEN blog.content ELSE body.content[1],
        !.authorId = IF IsSome(body.authorId) THEN body.authorId[1] ELSE blog.authorId,
        !.categoryId = IF IsSome(body.categoryId) THEN body.categoryId[1] ELSE blog.categoryId,
        !.tags = [i \in 1..Len(tags) |-> Trim(tags[i])],
        !.excerpt = IF IsSome(body.excerpt) THEN Trim(body.excerpt[1]) ELSE blog.excerpt,
        !.imageAlt = IF IsSome(body.imageAlt) THEN Trim(body.imageAlt[1]) ELSE blog.imageAlt,
        !.isFeatured = IF IsSome(body.isFeatured) THEN body.isFeatured[1] ELSE blog.isFeatured,
        !.status = IF IsSome(body.status) THEN body.status[1] ELSE blog.status,
        !.publishDate = IF IsSome(body.publishDate) THEN body.publishDate ELSE blog.publishDate,
        !.metaDescription = IF IsSome(body.metaDescription) THEN Trim(body.metaDescription[1])
                            ELSE blog.metaDescription,
        !.metaKeywords = IF NoKeywords(body.metaKeywords) THEN blog.metaKeywords
                         ELSE LET kws == FormatKeywords(body.metaKeywords[1])
                              IN [i \in 1..Len(kws) |-> Trim(kws[i])],
        !.cloudinaryPublicId = body.file \/ blog.cloudinaryPublicId,
        !.imageUrl = IF body.file THEN UploadPath
                     ELSE IF ~Falsy(body.imageUrl) THEN body.imageUrl[1]
                     ELSE blog.imageUrl]

\* validation of the modified paths of an existing document
ModifiedPathsValid(doc, old) ==
  /\ (doc.title # old.title => doc.title # <<>>)
  /\ (doc.content # old.content => doc.content # <<>>)
  /\ (doc.excerpt # old.excerpt => doc.excerpt # <<>>)
  /\ (doc.imageAlt # old.imageAlt => doc.imageAlt # <<>>)
  /\ (doc.tags # old.tags => \A i \in 1..Len(doc.tags) : doc.tags[i] # <<>>)
  /\ (doc.status # old.status => doc.status \in {"draft", "published"})

\* mutant: the save of a fetched document inserts it a second time
ReplaceBlog_Append(bs, doc) == Append(bs, doc)

ReplaceBlog(bs, doc) == [i \in 1..Len(bs) |-> IF bs[i].id = doc.id THEN doc ELSE bs[i]]

\* mutant: the pre-save hook without its assignment to updatedAt
SaveExisting_NoStamp(doc, old, bs, at) ==
  LET slug == PreSaveSlug(doc.slug, doc.title, bs, at)
      saved == [doc EXCEPT !.slug = slug]
  IN IF ~ModifiedPathsValid(doc, old) THEN [ok |-> FALSE, blogs |-> bs, doc |-> old]
     ELSE IF doc.tags = <<>> THEN [ok |-> FALSE, blogs |-> bs, doc |-> old]
     ELSE IF ~UniqueSlugIndex(bs, doc.id, slug) THEN [ok |-> FALSE, blogs |-> bs, doc |-> old]
     ELSE [ok |-> TRUE, blogs |-> ReplaceBlog(bs, saved), doc |-> saved]

\* blog.save() of a fetched document: validation, the pre-save hook, the write
SaveExisting(doc, old, bs, at) ==
  LET slug == PreSaveSlug(doc.slug, doc.title, bs, at)
      withSlug == [doc EXCEPT !.slug = slug]
      saved == IF withSlug # old THEN [withSlug EXCEPT !.updatedAt = at] ELSE withSlug
  IN IF ~ModifiedPathsValid(doc, old) THEN [ok |-> FALSE, blogs |-> bs, doc |-> old]
     ELSE IF doc.tags = <<>> THEN [ok |-> FALSE, blogs |-> bs, doc |-> old]
     ELSE IF ~UniqueSlugIndex(bs, doc.id, slug) THEN [ok |-> FALSE, blogs |-> bs, doc |-> old]
     ELSE [ok |-> TRUE, blogs |-> ReplaceBlog(bs, saved), doc |-> saved]

\* PUT /api/blogs/:id (admin only)
UpdateBlog(tok, id, body) ==
  /\ LET gate == AdminGate(tok, users)
         base == [NoResp EXCEPT !.op = "updateBlog", !.rev = "r003", !.tok = tok, !.at = now,
                                 !.target = id, !.body = body]
         found == BlogById(blogs, id)
         blog == CHOOSE b \in found : TRUE
         rejected == UpdateRejection(body, blog, blogs)
         saved == SaveExisting(ApplyUpdate(body, blog), blog, blogs, now)
     IN IF gate # 0
        THEN /\ resp' = [base EXCEPT !.status = gate, !.fields = {"message"}]
             /\ UNCHANGED <<blogs, assets>>
        ELSE IF found = {}
        THEN /\ resp' = [base EXCEPT !.status = 404, !.fields = {"success", "message"}]
             /\ assets' = IF body.file THEN Orphaned(assets) ELSE assets
             /\ UNCHANGED blogs
        ELSE IF rejected # 0
        THEN /\ resp' = [base EXCEPT !.status = rejected, !.fields = {"success", "message"}]
             /\ assets' = IF body.file THEN Orphaned(assets) ELSE assets
             /\ UNCHANGED blogs
        ELSE IF ~saved.ok
        THEN /\ resp' = [base EXCEPT !.status = 500, !.fields = {"success", "message", "error"}]
             /\ assets' = IF body.file THEN Orphaned(assets) ELSE assets
             /\ UNCHANGED blogs
        ELSE /\ resp' = [base EXCEPT !.status = 200, !.fields = {"success", "blog", "message", "optimization"},
                                     !.slug = saved.doc.slug]
             /\ blogs' = saved.blogs
             /\ assets' = IF ~body.file THEN assets
                          ELSE IF blog.cloudinaryPublicId THEN Orphaned(assets)
                          ELSE Holding(assets, id)
  /\ UNCHANGED <<now, categories, authors, users, nextBlogId, nextRefId, nextUserId, procs, conn>>

\* mutant: the asset deletion outside any try block, its failure reaches the
\* handler's catch before the document is deleted
DeleteBlogWith_AssetFatal(rev, tok, id, destroyOk) ==
  /\ LET gate == AdminGate(tok, users)
         base == [NoResp EXCEPT !.op = "deleteBlog", !.rev = rev, !.tok = tok, !.at = now,
                                 !.target = id]
         found == BlogById(blogs, id)
         had == found # {} /\ (CHOOSE b \in found : TRUE).cloudinaryPublicId
         hasAsset == rev # "routes" /\ (CHOOSE b \in found : TRUE).cloudinaryPublicId
     IN IF gate # 0
        THEN /\ resp' = [base EXCEPT !.status = gate, !.fields = {"message"}]
             /\ UNCHANGED <<blogs, assets>>
        ELSE IF found = {}
        THEN /\ resp' = [base EXCEPT !.status = 404, !.fields = {"success", "message"}]
             /\ UNCHANGED <<blogs, assets>>
        ELSE IF hasAsset /\ ~destroyOk
        THEN /\ resp' = [base EXCEPT !.status = 500, !.fields = {"success", "message", "error"},
                                     !.asset = "failed"]
             /\ UNCHANGED <<blogs, assets>>
        ELSE /\ resp' = [base EXCEPT !.status = 200, !.fields = {"success", "message"},
                                     !.asset = IF hasAsset THEN "destroyed" ELSE "none"]
             /\ blogs' = RemoveBlog(blogs, id)
             /\ assets' = Released(assets, id, had, hasAsset /\ destroyOk)
  /\ UNCHANGED <<now, categories, authors, users, nextBlogId, nextRefId, nextUserId, procs, conn>>

\* DELETE /api/blogs/:id (admin only): for a blog with a cloudinaryPublicId the
\* stored image is destroyed first, inside a try block of its own (the oldest
\* router has no such step); destroyOk is the outcome of that call
DeleteBlogWith(rev, tok, id, destroyOk) ==
  /\ LET gate == AdminGate(tok, users)
         base == [NoResp EXCEPT !.op = "deleteBlog", !.rev = rev, !.tok = tok, !.at = now,
                                 !.target = id]
         found == BlogById(blogs, id)
         had == found # {} /\ (CHOOSE b \in found : TRUE).cloudinaryPublicId
         hasAsset == rev # "routes" /\ (CHOOSE b \in found : TRUE).cloudinaryPublicId
     IN IF gate # 0
        THEN /\ resp' = [base EXCEPT !.status = gate, !.fields = {"message"}]
             /\ UNCHANGED <<blogs, assets>>
        ELSE IF found = {}
        THEN /\ resp' = [base EXCEPT !.status = 404, !.fields = {"success", "message"}]
             /\ UNCHANGED <<blogs, assets>>
        ELSE /\ resp' = [base EXCEPT !.status = 200, !.fields = {"success", "message"},
                                     !.asset = IF ~hasAsset THEN "none"
                                               ELSE IF destroyOk THEN "destroyed" ELSE "failed"]
             /\ blogs' = RemoveBlog(blogs, id)
             /\ assets' = Released(assets, id, had, hasAsset /\ destroyOk)
  /\ UNCHANGED <<now, categories, authors, users, nextBlogId, nextRefId, nextUserId, procs, conn>>

\* DELETE /api/blogs/:id of the current router, with either outcome of the
\* asset deletion
DeleteBlog(tok, id) == \E destroyOk \in BOOLEAN : DeleteBlogWith("r003", tok, id, destroyOk)


---------------------------------------------------------------------------
(* Blog create and update handlers of the other router revisions *)

\* POST /api/blogs of the simplified router: the checks of the create handler
\* in one test each, the same document, the same save
SimpleCreateBlog(tok, body) ==
  /\ LET gate == AdminGate(tok, users)
         rejected == CreateRejection(body, blogs)
         base == [NoResp EXCEPT !.op = "createBlog", !.rev = "r004", !.tok = tok, !.at = now,
                                 !.body = body]
         saved == SaveNew(NewBlog(body, nextBlogId, tok, now), blogs, now)
     IN IF gate # 0
        THEN /\ resp' = [base EXCEPT !.status = gate, !.fields = {"message"}]
             /\ UNCHANGED <<blogs, nextBlogId, assets>>
        ELSE IF rejected # 0
        THEN /\ resp' = [base EXCEPT !.status = rejected, !.fields = {"success", "message"}]
             /\ assets' = IF body.file THEN Orphaned(assets) ELSE assets
             /\ UNCHANGED <<blogs, nextBlogId>>
        ELSE IF ~saved.ok
        THEN /\ resp' = [base EXCEPT !.status = 500, !.fields = {"success", "message", "error"}]
             /\ assets' = Orphaned(assets)
             /\ UNCHANGED <<blogs, nextBlogId>>
        ELSE /\ resp' = [base EXCEPT !.status = 201, !.fields = {"success", "blog", "message"},
                                     !.target = nextBlogId, !.slug = saved.doc.slug]
             /\ blogs' = saved.blogs
             /\ nextBlogId' = nextBlogId + 1
             /\ assets' = Holding(assets, nextBlogId)
  /\ UNCHANGED <<now, categories, authors, users, nextRefId, nextUserId, procs, conn>>

\* the status the simplified update handler answers before blog.save(), 0 if none
SimpleUpdateRejection(body, blog, bs) ==
  IF /\ IsSome(body.slug)
     /\ body.slug[1] # <<>>
     /\ slugify(body.slug[1]) # blog.slug
     /\ \E b \in Range(bs) : b.id # blog.id /\ b.slug = slugify(body.slug[1])
  THEN 400
  ELSE IF \/ body.title = Some(<<>>) \/ body.content = Some(<<>>)
          \/ body.excerpt = Some(<<>>) \/ body.imageAlt = Some(<<>>)
  THEN 400
  ELSE IF IsSome(body.tags) /\ FormatTags(body.tags[1]) = <<>> THEN 400
  ELSE 0

\* the field assignments of the simplified update handler
SimpleApplyUpdate(body, blog) ==
  LET tags == IF IsSome(body.tags) THEN FormatTags(body.tags[1]) ELSE blog.tags
  IN [blog EXCEPT
        !.slug = IF IsSome(body.slug) /\ body.slug[1] # <<>>
                 THEN slugify(body.slug[1]) ELSE blog.slug,
        !.title = IF IsSome(body.title) THEN Trim(body.title[1]) ELSE blog.title,
        !.content = IF IsSome(body.content) THEN body.content[1] ELSE blog.content,
        !.authorId = IF IsSome(body.authorId) THEN body.authorId[1] ELSE blog.authorId,
        !.categoryId = IF IsSome(body.categoryId) THEN body.categoryId[1] ELSE blog.categoryId,
        !.tags = [i \in 1..Len(tags) |-> Trim(tags[i])],
        !.excerpt = IF IsSome(body.excerpt) THEN Trim(body.excerpt[1]) ELSE blog.excerpt,
        !.imageAlt = IF IsSome(body.imageAlt) THEN Trim(body.imageAlt[1]) ELSE blog.imageAlt,
        !.isFeatured = IF IsSome(body.isFeatured) THEN body.isFeatured[1] ELSE blog.isFeatured,
        !.status = IF IsSome(body.status) THEN body.status[1] ELSE blog.status,
        !.publishDate = IF IsSome(body.publishDate) THEN body.publishDate ELSE blog.publishDate,
        !.metaDescription = IF IsSome(body.metaDescription) THEN Trim(body.metaDescription[1])
                            ELSE blog.metaDescription,
        !.metaKeywords = IF body.metaKeywords = None THEN blog.metaKeywords
                         ELSE LET kws == FormatKeywords(body.metaKeywords[1])
                              IN [i \in 1..Len(kws) |-> Trim(kws[i])],
        !.cloudinaryPublicId = body.file \/ blog.cloudinaryPublicId,
        !.imageUrl = IF body.file THEN UploadPath ELSE blog.imageUrl]

\* the references are required paths: an emptied one fails the validation of save
RefsValid(doc) == doc.categoryId # 0 /\ doc.authorId # 0

\* PUT /api/blogs/:id of the simplified router (admin only)
SimpleUpdateBlog(tok, id, body) ==
  /\ LET gate == AdminGate(tok, users)
         base == [NoResp EXCEPT !.op = "updateBlog", !.rev = "r004", !.tok = tok, !.at = now,
                                 !.target = id, !.body = body]
         found == BlogById(blogs, id)
         blog == CHOOSE b \in found : TRUE
         rejected == SimpleUpdateRejection(body, blog, blogs)
         doc == SimpleApplyUpdate(body, blog)
         saved == SaveExisting(doc, blog, blogs, now)
     IN IF gate # 0
        THEN /\ resp' = [base EXCEPT !.status = gate, !.fields = {"message"}]
             /\ UNCHANGED <<blogs, assets>>
        ELSE IF found = {}
        THEN /\ resp' = [base EXCEPT !.status = 404, !.fields = {"success", "message"}]
             /\ assets' = IF body.file THEN Orphaned(assets) ELSE assets
             /\ UNCHANGED blogs
        ELSE IF rejected # 0
        THEN /\ resp' = [base EXCEPT !.status = rejected, !.fields = {"success", "message"}]
             /\ assets' = IF body.file THEN Orphaned(assets) ELSE assets
             /\ UNCHANGED blogs
        ELSE IF ~RefsValid(doc) \/ ~saved.ok
        THEN /\ resp' = [base EXCEPT !.status = 500, !.fields = {"success", "message", "error"}]
             /\ assets' = IF body.file THEN Orphaned(assets) ELSE assets
             /\ UNCHANGED blogs
        ELSE /\ resp' = [base EXCEPT !.status = 200, !.fields = {"success", "blog", "message"},
                                     !.slug = saved.doc.slug]
             /\ blogs' = saved.blogs
             /\ assets' = IF ~body.file THEN assets
                          ELSE IF blog.cloudinaryPublicId THEN Orphaned(assets)
                          ELSE Holding(assets, id)
  /\ UNCHANGED <<now, categories, authors, users, nextBlogId, nextRefId, nextUserId, procs, conn>>

\* the field assignments of the oldest update handler
LegacyApplyUpdate(body, blog) ==
  LET tags == IF body.tags = None THEN blog.tags
              ELSE IF body.tags[1].isArray THEN body.tags[1].items
              ELSE IF body.tags[1].text = <<>> THEN blog.tags
              ELSE SplitComma(body.tags[1].text, <<>>)
  IN [blog EXCEPT
        !.slug = IF ~Falsy(body.slug) /\ body.slug[1] # blog.slug
                 THEN slugify(body.slug[1]) ELSE blog.slug,
        !.title = IF Falsy(body.title) THEN blog.title ELSE Trim(body.title[1]),
        !.content = IF Falsy(body.content) THEN blog.content ELSE body.content[1],
        !.authorId = IF IsSome(body.authorId) THEN body.authorId[1] ELSE blog.authorId,
        !.categoryId = IF IsSome(body.categoryId) THEN body.categoryId[1] ELSE blog.categoryId,
        !.tags = [i \in 1..Len(tags) |-> Trim(tags[i])],
        !.excerpt = IF IsSome(body.excerpt) THEN Trim(body.excerpt[1]) ELSE blog.excerpt,
        !.imageAlt = IF IsSome(body.imageAlt) THEN Trim(body.imageAlt[1]) ELSE blog.imageAlt,
        !.isFeatured = IF IsSome(body.isFeatured) THEN body.isFeatured[1] ELSE blog.isFeatured,
        !.status = IF IsSome(body.status) THEN body.status[1] ELSE blog.status,
        !.metaDescription = IF IsSome(body.metaDescription) THEN Trim(body.metaDescription[1])
                            ELSE blog.metaDescription,
        !.metaKeywords = IF NoKeywords(body.metaKeywords) THEN blog.metaKeywords
                         ELSE LET kws == FormatKeywords(body.metaKeywords[1])
                              IN [i \in 1..Len(kws) |-> Trim(kws[i])],
        !.imageUrl = IF body.file THEN DataUrl
                     ELSE IF ~Falsy(body.imageUrl) THEN body.imageUrl[1]
                     ELSE blog.imageUrl]

\* pre('save') of the older schema: the slug is derived again when it is not
\* set or the title was modified, suffixed when the derived slug is stored and
\* is not the document's own
LegacyPreSaveSlug(doc, old, bs, at) ==
  IF doc.slug = <<>> \/ doc.title # old.title
  THEN LET baseSlug == slugify(doc.title)
       IN IF SlugExists(bs, baseSlug) /\ doc.slug # baseSlug
          THEN baseSlug \o <<"-">> \o TimestampSuffix(at)
          ELSE baseSlug
  ELSE doc.slug

\* blog.save() of a fetched document under the older schema
LegacySaveExisting(doc, old, bs, at) ==
  LET slug == LegacyPreSaveSlug(doc, old, bs, at)
      withSlug == [doc EXCEPT !.slug = slug]
      saved == IF withSlug # old THEN [withSlug EXCEPT !.updatedAt = at] ELSE withSlug
  IN IF doc.title = <<>> \/ doc.content = <<>> \/ doc.status \notin {"draft", "published"}
     THEN [ok |-> FALSE, blogs |-> bs, doc |-> old]
     ELSE IF ~UniqueSlugIndex(bs, doc.id, slug) THEN [ok |-> FALSE, blogs |-> bs, doc |-> old]
     ELSE [ok |-> TRUE, blogs |-> ReplaceBlog(bs, saved), doc |-> saved]

\* PUT /api/blogs/:id of the oldest router (admin only)
LegacyUpdateBlog(tok, id, body) ==
  /\ LET gate == AdminGate(tok, users)
         base == [NoResp EXCEPT !.op = "updateBlog", !.rev = "routes", !.tok = tok, !.at = now,
                                 !.target = id, !.body = body]
         found == BlogById(blogs, id)
         blog == CHOOSE b \in found : TRUE
         collides == /\ ~Falsy(body.slug)
                     /\ body.slug[1] # blog.slug
                     /\ \E b \in Range(blogs) : b.id # id /\ b.slug = slugify(body.slug[1])
         saved == LegacySaveExisting(LegacyApplyUpdate(body, blog), blog, blogs, now)
     IN IF gate # 0
        THEN /\ resp' = [base EXCEPT !.status = gate, !.fields = {"message"}]
             /\ UNCHANGED blogs
        ELSE IF found = {}
        THEN /\ resp' = [base EXCEPT !.status = 404, !.fields = {"success", "message"}]
             /\ UNCHANGED blogs
        ELSE IF collides
        THEN /\ resp' = [base EXCEPT !.status = 400, !.fields = {"success", "message"}]
             /\ UNCHANGED blogs
        ELSE IF ~saved.ok
        THEN /\ resp' = [base EXCEPT !.status = 500, !.fields = {"success", "message", "error"}]
             /\ UNCHANGED blogs
        ELSE /\ resp' = [base EXCEPT !.status = 200, !.fields = {"success", "blog"},
                                     !.slug = saved.doc.slug]
             /\ blogs' = saved.blogs
  /\ UNCHANGED <<now, categories, authors, users, nextBlogId, nextRefId, nextUserId, procs, conn, assets>>

---------------------------------------------------------------------------
(* Category and author handlers *)

RefById(rs, id) == {r \in rs : r.id = id}

\* mutant: the category guard counting the blogs of the author with that id
BlogsWithCategory_ByAuthor(bs, id) == Len(FilterSeq(bs, {b \in Range(bs) : b.authorId = id}))

\* Blog.countDocuments({ categoryId: id }) and Blog.countDocuments({ authorId: id })
BlogsWithCategory(bs, id) == Len(FilterSeq(bs, {b \in Range(bs) : b.categoryId = id}))

BlogsWithAuthor(bs, id) == Len(FilterSeq(bs, {b \in Range(bs) : b.authorId = id}))

\* name: { $regex: new RegExp(`^${name}$`, 'i') } for a name without metacharacters
NameMatches(stored, name) == ToLowerCase(stored) = ToLowerCase(name)

\* name and slug carry unique indexes in the category schema
CategoryIndexes(cs, id, name) ==
  \A c \in cs : c.id # id => (c.name # name /\ slugify(c.name) # slugify(name))

\* what the shared counters and the other collections do in a category or author request
RefFrame == UNCHANGED <<now, blogs, users, nextBlogId, nextUserId, procs, conn, assets>>

\* POST /api/categories (admin only); name is an optional text
CreateCategory(tok, name) ==
  /\ LET gate == AdminGate(tok, users)
         base == [NoResp EXCEPT !.op = "createCategory", !.tok = tok, !.at = now]
         stored == IF IsSome(name) THEN Trim(name[1]) ELSE <<>>
     IN IF gate # 0
        THEN /\ resp' = [base EXCEPT !.status = gate, !.fields = {"message"}]
             /\ UNCHANGED <<categories, nextRefId>>
        ELSE IF IsSome(name) /\ \E c \in categories : NameMatches(c.name, name[1])
        THEN /\ resp' = [base EXCEPT !.status = 400, !.fields = {"success", "message"}]
             /\ UNCHANGED <<categories, nextRefId>>
        ELSE IF stored = <<>> \/ ~CategoryIndexes(categories, nextRefId, stored)
        THEN /\ resp' = [base EXCEPT !.status = 500, !.fields = {"success", "message", "error"}]
             /\ UNCHANGED <<categories, nextRefId>>
        ELSE /\ resp' = [base EXCEPT !.status = 201, !.fields = {"success", "category"},
                                     !.target = nextRefId]
             /\ categories' = categories \cup {[id |-> nextRefId, name |-> stored]}
             /\ nextRefId' = nextRefId + 1
  /\ UNCHANGED authors
  /\ RefFrame

\* PUT /api/categories/:id (admin only)
UpdateCategory(tok, id, name) ==
  /\ LET gate == AdminGate(tok, users)
         base == [NoResp EXCEPT !.op = "updateCategory", !.tok = tok, !.at = now, !.target = id]
         found == RefById(categories, id)
         category == CHOOSE c \in found : TRUE
         stored == IF Falsy(name) THEN category.name ELSE Trim(name[1])
     IN IF gate # 0
        THEN /\ resp' = [base EXCEPT !.status = gate, !.fields = {"message"}]
             /\ UNCHANGED categories
        ELSE IF found = {}
        THEN /\ resp' = [base EXCEPT !.status = 404, !.fields = {"success", "message"}]
             /\ UNCHANGED categories
        ELSE IF /\ IsSome(name)
                /\ name[1] # category.name
                /\ \E c \in categories : c.id # id /\ NameMatches(c.name, name[1])
        THEN /\ resp' = [base EXCEPT !.status = 400, !.fields = {"success", "message"}]
             /\ UNCHANGED categories
        ELSE IF stored = <<>> \/ ~CategoryIndexes(categories, id, stored)
        THEN /\ resp' = [base EXCEPT !.status = 500, !.fields = {"success", "message", "error"}]
             /\ UNCHANGED categories
        ELSE /\ resp' = [base EXCEPT !.status = 200, !.fields = {"success", "category"}]
             /\ categories' = (categories \ found) \cup {[id |-> id, name |-> stored]}
  /\ UNCHANGED <<authors, nextRefId>>
  /\ RefFrame

\* DELETE /api/categories/:id (admin only)
DeleteCategory(tok, id) ==
  /\ LET gate == AdminGate(tok, users)
         base == [NoResp EXCEPT !.op = "deleteCategory", !.tok = tok, !.at = now, !.target = id]
         blogsWithCategory == BlogsWithCategory(blogs, id)
     IN IF gate # 0
        THEN /\ resp' = [base EXCEPT !.status = gate, !.fields = {"message"}]
             /\ UNCHANGED categories
        ELSE IF blogsWithCategory > 0
        THEN /\ resp' = [base EXCEPT !.status = 400, !.fields = {"success", "message", "blogsCount"},
                                     !.blogsCount = blogsWithCategory]
             /\ UNCHANGED categories
        ELSE IF RefById(categories, id) = {}
        THEN /\ resp' = [base EXCEPT !.status = 404, !.fields = {"success", "message"}]
             /\ UNCHANGED categories
        ELSE /\ resp' = [base EXCEPT !.status = 200, !.fields = {"success", "message"}]
             /\ categories' = categories \ RefById(categories, id)
  /\ UNCHANGED <<authors, nextRefId>>
  /\ RefFrame

\* POST /api/authors (admin only)
CreateAuthor(tok, name) ==
  /\ LET gate == AdminGate(tok, users)
         base == [NoResp EXCEPT !.op = "createAuthor", !.tok = tok, !.at = now]
     IN IF gate # 0
        THEN /\ resp' = [base EXCEPT !.status = gate, !.fields = {"message"}]
             /\ UNCHANGED <<authors, nextRefId>>
        ELSE IF Falsy(name) \/ Trim(name[1]) = <<>>
        THEN /\ resp' = [base EXCEPT !.status = 400, !.fields = {"success", "message"}]
             /\ UNCHANGED <<authors, nextRefId>>
        ELSE IF \E a \in authors : a.name = Trim(name[1])
        THEN /\ resp' = [base EXCEPT !.status = 400, !.fields = {"success", "message"}]
             /\ UNCHANGED <<authors, nextRefId>>
        ELSE /\ resp' = [base EXCEPT !.status = 201, !.fields = {"success", "author"},
                                     !.target = nextRefId]
             /\ authors' = authors \cup {[id |-> nextRefId, name |-> Trim(name[1])]}
             /\ nextRefId' = nextRefId + 1
  /\ UNCHANGED categories
  /\ RefFrame

\* PUT /api/authors/:id (admin only)
UpdateAuthor(tok, id, name) ==
  /\ LET gate == AdminGate(tok, users)
         base == [NoResp EXCEPT !.op = "updateAuthor", !.tok = tok, !.at = now, !.target = id]
     IN IF gate # 0
        THEN /\ resp' = [base EXCEPT !.status = gate, !.fields = {"message"}]
             /\ UNCHANGED authors
        ELSE IF Falsy(name) \/ Trim(name[1]) = <<>>
        THEN /\ resp' = [base EXCEPT !.status = 400, !.fields = {"success", "message"}]
             /\ UNCHANGED authors
        ELSE IF \E a \in authors : a.id # id /\ a.name = Trim(name[1])
        THEN /\ resp' = [base EXCEPT !.status = 400, !.fields = {"success", "message"}]
             /\ UNCHANGED authors
        ELSE IF RefById(authors, id) = {}
        THEN /\ resp' = [base EXCEPT !.status = 404, !.fields = {"success", "message"}]
             /\ UNCHANGED authors
        ELSE /\ resp' = [base EXCEPT !.status = 200, !.fields = {"success", "author"}]
             /\ authors' = (authors \ RefById(authors, id)) \cup {[id |-> id, name |-> Trim(name[1])]}
  /\ UNCHANGED <<categories, nextRefId>>
  /\ RefFrame

\* DELETE /api/authors/:id (admin only)
DeleteAuthor(tok, id) ==
  /\ LET gate == AdminGate(tok, users)
         base == [NoResp EXCEPT !.op = "deleteAuthor", !.tok = tok, !.at = now, !.target = id]
         blogsWithAuthor == BlogsWithAuthor(blogs, id)
     IN IF gate # 0
        THEN /\ resp' = [base EXCEPT !.status = gate, !.fields = {"message"}]
             /\ UNCHANGED authors
        ELSE IF blogsWithAuthor > 0
        THEN /\ resp' = [base EXCEPT !.status = 400, !.fields = {"success", "message"},
                                     !.blogsCount = blogsWithAuthor]
             /\ UNCHANGED authors
        ELSE IF RefById(authors, id) = {}
        THEN /\ resp' = [base EXCEPT !.status = 404, !.fields = {"success", "message"}]
             /\ UNCHANGED authors
        ELSE /\ resp' = [base EXCEPT !.status = 200, !.fields = {"success", "message"}]
             /\ authors' = authors \ RefById(authors, id)
  /\ UNCHANGED <<categories, nextRefId>>
  /\ RefFrame

---------------------------------------------------------------------------
(* Signup and user deletion *)

\* mutant: the bootstrap promotion for every count from one on
SignupRole_AnyCount(userCount) == IF userCount >= 1 THEN "admin" ELSE DefaultRole

\* if (userCount === 1) user.role = 'admin'
SignupRole(userCount) == IF userCount = 1 THEN "admin" ELSE DefaultRole

\* POST /api/auth/signup
Signup(email) ==
  /\ LET base == [NoResp EXCEPT !.op = "signup", !.at = now]
         created == [id |-> nextUserId, email |-> email, role |-> DefaultRole]
         userCount == Cardinality(users \cup {created})
         user == [created EXCEPT !.role = SignupRole(userCount)]
     IN IF \E u \in users : u.email = email
        THEN /\ resp' = [base EXCEPT !.status = 400, !.fields = {"success", "message"}]
             /\ UNCHANGED <<users, nextUserId>>
        ELSE /\ resp' = [base EXCEPT !.status = 201, !.fields = {"user", "token"},
                                     !.userId = user.id, !.role = user.role]
             /\ users' = users \cup {user}
             /\ nextUserId' = nextUserId + 1
  /\ UNCHANGED <<now, blogs, categories, authors, nextBlogId, nextRefId, procs, conn, assets>>

\* DELETE /api/users/:id (admin only)
DeleteUser(tok, id) ==
  /\ LET gate == AdminGate(tok, users)
         base == [NoResp EXCEPT !.op = "deleteUser", !.tok = tok, !.at = now, !.target = id]
     IN IF gate # 0
        THEN /\ resp' = [base EXCEPT !.status = gate, !.fields = {"message"}]
             /\ UNCHANGED users
        ELSE IF UserById(users, id) = {}
        THEN /\ resp' = [base EXCEPT !.status = 404, !.fields = {"success", "message"}]
             /\ UNCHANGED users
        ELSE IF id = tok
        THEN /\ resp' = [base EXCEPT !.status = 400, !.fields = {"success", "message"}]
             /\ UNCHANGED users
        ELSE /\ resp' = [base EXCEPT !.status = 200, !.fields = {"success", "message"}]
             /\ users' = users \ UserById(users, id)
  /\ UNCHANGED <<now, blogs, categories, authors, nextBlogId, nextRefId, nextUserId, procs, conn, assets>>

\* GET /api/users/profile (any authenticated user)
GetProfile(tok) ==
  /\ LET a == authenticate(tok, users)
         base == [NoResp EXCEPT !.op = "profile", !.tok = tok, !.at = now]
     IN resp' = IF a.status # 0
                THEN [base EXCEPT !.status = a.status, !.fields = {"message"}]
                ELSE IF UserById(users, a.user[1].id) = {}
                THEN [base EXCEPT !.status = 404, !.fields = {"success", "message"}]
                ELSE [base EXCEPT !.status = 200, !.fields = {"success", "user"},
                                  !.userId = a.user[1].id, !.role = a.user[1].role]
  /\ UNCHANGED <<now, blogs, categories, authors, users, nextBlogId, nextRefId, nextUserId, procs, conn, assets>>

---------------------------------------------------------------------------
(* Initial states and request inputs *)

Times == StartTime..(StartTime + MaxTime)

\* the store before the first request
InitEmpty ==
  /\ now = StartTime
  /\ blogs = <<>>
  /\ categories = {}
  /\ authors = {}
  /\ users = {}
  /\ nextBlogId = 1
  /\ nextRefId = 1
  /\ nextUserId = 1
  /\ resp = NoResp
  /\ procs = <<>>
  /\ conn = NoConn
  /\ assets = NoAssets

\* the store after two signups, one category create and one author create
InitBoot ==
  /\ now = StartTime
  /\ blogs = <<>>
  /\ categories = {[id |-> 1, name |-> <<"a">>]}
  /\ authors = {[id |-> 2, name |-> <<"b">>]}
  /\ users = {[id |-> 1, email |-> "e1", role |-> "admin"],
              [id |-> 2, email |-> "e2", role |-> DefaultRole]}
  /\ nextBlogId = 1
  /\ nextRefId = 3
  /\ nextUserId = 3
  /\ resp = NoResp
  /\ procs = <<>>
  /\ conn = NoConn
  /\ assets = NoAssets

AdminToken == TokenFor(1)

StringTags(t) == [isArray |-> FALSE, items |-> <<>>, text |-> t]

\* a create request that passes every check of the handler
ValidBody ==
  [NoBody EXCEPT !.title = Some(<<"h", "i">>), !.content = Some(<<"c">>),
                 !.excerpt = Some(<<"c">>), !.imageAlt = Some(<<"c">>),
                 !.categoryId = Some(1), !.authorId = Some(2),
                 !.tags = Some(StringTags(<<"a">>)), !.file = TRUE]

StoredSlugs == {b.slug : b \in Range(blogs)}

---------------------------------------------------------------------------
(* Visibility: creates with a status and a publish date, the clock, the
   published and scheduled listings and the slug lookup *)

\* the instants of the run and one after all of them
PublishDates == StartTime..(StartTime + MaxTime + 1)

NextVisCreate ==
  /\ nextBlogId <= MaxVisBlogs
  /\ \/ \E pd \in {None} \cup {Some(t) : t \in PublishDates} :
          CreateBlog(AdminToken, [ValidBody EXCEPT !.publishDate = pd])
     \/ CreateBlog(AdminToken, [ValidBody EXCEPT !.status = Some("draft")])

NextVisLegacy ==
  /\ nextBlogId <= MaxVisBlogs
  /\ LegacyCreateBlog(AdminToken, ValidBody)

NextVisList ==
  \E rev \in {"r003", "r004"}, ep \in {"published", "scheduled"} :
    ListBlogs(ep, rev, NoQuery, AdminToken)

NextVisSlug ==
  \E rev \in Revisions, s \in StoredSlugs : GetBySlug(rev, s)

NextVis == NextVisCreate \/ NextVisLegacy \/ Tick \/ NextVisList \/ NextVisSlug

SpecVis == InitBoot /\ [][NextVis]_vars

\* the spec's visibility rule for a stored blog at an instant
PubliclyVisible(b, at) ==
  b.status = "published" /\ (b.publishDate = None \/ b.publishDate[1] <= at)

VisibleIds(at) == {b.id : b \in {x \in Range(blogs) : PubliclyVisible(x, at)}}

\* C1: at any instant the published listing without search selects exactly the
\* stored blogs with status published and publishDate absent or not after the
\* instant: future-dated published blogs are excluded, undated ones included
C1_PublishedSelectsVisible ==
  (resp.op = "published" /\ resp.status = 200 /\ resp.q.limit = None)
    => /\ Range(resp.blogs) = VisibleIds(resp.at)
       /\ Len(resp.blogs) = Cardinality(VisibleIds(resp.at))
       /\ resp.totalCount = Cardinality(VisibleIds(resp.at))

\* a published listing answered over a store holding a future-dated published
\* blog, an undated published blog and a draft
C1_Witness ==
  /\ resp.op = "published" /\ resp.status = 200
  /\ \E b \in Range(blogs) : b.status = "published" /\ IsSome(b.publishDate)
                             /\ b.publishDate[1] > resp.at /\ b.id \notin Range(resp.blogs)
  /\ \E b \in Range(blogs) : b.status = "published" /\ b.publishDate = None
                             /\ b.id \in Range(resp.blogs)
  /\ \E b \in Range(blogs) : b.status = "draft"

\* C2: the slug lookup of a published blog whose publishDate is strictly after
\* the instant of the request answers 404, and answers 200 with a published
\* blog only when the instant is not before its publishDate
C2_ScheduledSlugIs404 ==
  resp.op = "bySlug"
    => \A b \in Range(blogs) :
         (b.slug = resp.slug /\ b.status = "published" /\ IsSome(b.publishDate))
           => /\ (b.publishDate[1] > resp.at => resp.status = 404)
              /\ (resp.status = 200 => resp.at >= b.publishDate[1])

---------------------------------------------------------------------------
(* Slug uniqueness: creates with colliding titles and explicit slugs, also
   within one clock second, and deletes *)

SlugTitles == {<<"h", "i">>, <<"H", "i", "!">>}

SlugInputs == {None, Some(<<"h", "i">>), Some(<<"h", "i", "-">> \o TimestampSuffix(StartTime + 1))}

NextSlugCreate ==
  /\ nextBlogId <= MaxSlugBlogs
  /\ \E t \in SlugTitles, sl \in SlugInputs :
    CreateBlog(AdminToken, [ValidBody EXCEPT !.title = Some(t), !.slug = sl])

NextSlugLegacy ==
  /\ nextBlogId <= MaxSlugBlogs
  /\ \E t \in SlugTitles : LegacyCreateBlog(AdminToken, [ValidBody EXCEPT !.title = Some(t)])

NextSlugDelete == \E id \in 1..MaxSlugBlogs : DeleteBlog(AdminToken, id)

NextSlug == NextSlugCreate \/ NextSlugLegacy \/ NextSlugDelete \/ Tick

SpecSlug == InitBoot /\ [][NextSlug]_vars

\* C3: no two stored blogs have the same slug, and a blog created without an
\* explicit slug whose title-derived slug is already stored is persisted under
\* a slug that differs from it
C3_SlugsUnique ==
  /\ \A i, j \in 1..Len(blogs) : i # j => blogs[i].slug # blogs[j].slug
  /\ (resp.op = "createBlog" /\ resp.status = 201 /\ Falsy(resp.body.slug))
       => \A b \in Range(blogs) :
            (b.id # resp.target /\ b.slug = slugify(resp.body.title[1]))
              => /\ resp.slug # b.slug
                 /\ \E n \in Range(blogs) : n.id = resp.target /\ n.slug = resp.slug

\* a create without explicit slug whose derived slug was taken, persisted
\* under the suffixed slug, in the second in which the colliding blog was created
C3_Witness ==
  /\ resp.op = "createBlog" /\ resp.status = 201 /\ Falsy(resp.body.slug)
  /\ \E b, n \in Range(blogs) :
       /\ b.id # n.id /\ n.id = resp.target
       /\ b.slug = slugify(resp.body.title[1])
       /\ n.slug = b.slug \o <<"-">> \o TimestampSuffix(resp.at)
       /\ b.createdAt = n.createdAt

---------------------------------------------------------------------------
(* Referential-integrity guard: blogs referencing categories and authors,
   category and author creates and deletes, one request after another *)

RefIds == 1..MaxRefs

RefNames == {Some(<<"a">>), Some(<<"c">>)}

NextRefCreateBlog ==
  /\ nextBlogId <= MaxRefBlogs
  /\ \E r \in RefIds : CreateBlog(AdminToken, [ValidBody EXCEPT !.categoryId = Some(r)])

NextRefUpdateBlog ==
  \E id \in 1..MaxRefBlogs, c \in RefIds :
    UpdateBlog(AdminToken, id, [NoBody EXCEPT !.categoryId = Some(c)])

NextRefDeleteBlog == \E id \in 1..MaxRefBlogs : DeleteBlog(AdminToken, id)

NextRefCreateCategory == nextRefId <= MaxRefs /\ \E n \in RefNames : CreateCategory(AdminToken, n)

NextRefDeleteCategory == \E id \in RefIds : DeleteCategory(AdminToken, id)

NextRefCreateAuthor == nextRefId <= MaxRefs /\ CreateAuthor(AdminToken, Some(<<"c">>))

NextRefDeleteAuthor == \E id \in RefIds : DeleteAuthor(AdminToken, id)

NextRef ==
  \/ NextRefCreateBlog \/ NextRefUpdateBlog \/ NextRefDeleteBlog
  \/ NextRefCreateCategory \/ NextRefDeleteCategory
  \/ NextRefCreateAuthor \/ NextRefDeleteAuthor

SpecRef == InitBoot /\ [][NextRef]_vars

CategoryReferenced(id) == \E b \in Range(blogs) : b.categoryId = id

AuthorReferenced(id) == \E b \in Range(blogs) : b.authorId = id

\* C4: an admin DELETE of a category (author) referenced by a stored blog
\* answers 400 and leaves it stored; an admin DELETE of a stored category
\* (author) that no blog references removes it and answers success
C4_DeleteGuard ==
  [][/\ (resp' # resp /\ resp'.op = "deleteCategory" /\ AdminGate(resp'.tok, users) = 0)
          => /\ CategoryReferenced(resp'.target)
                  => (resp'.status = 400 /\ categories' = categories)
             /\ (~CategoryReferenced(resp'.target) /\ RefById(categories, resp'.target) # {})
                  => /\ resp'.status = 200
                     /\ categories' = categories \ RefById(categories, resp'.target)
     /\ (resp' # resp /\ resp'.op = "deleteAuthor" /\ AdminGate(resp'.tok, users) = 0)
          => /\ AuthorReferenced(resp'.target)
                  => (resp'.status = 400 /\ authors' = authors)
             /\ (~AuthorReferenced(resp'.target) /\ RefById(authors, resp'.target) # {})
                  => /\ resp'.status = 200
                     /\ authors' = authors \ RefById(authors, resp'.target)
    ]_vars

\* a category DELETE refused with 400 while a stored blog references the
\* category, which is still stored
C4_Witness ==
  /\ resp.op = "deleteCategory" /\ resp.status = 400 /\ resp.blogsCount > 0
  /\ CategoryReferenced(resp.target)
  /\ RefById(categories, resp.target) # {}

---------------------------------------------------------------------------
(* Signup bootstrap: signups from the empty user collection and user
   deletion.  Admin gate: every admin route under every kind of token *)

Emails == {"e1", "e2", "e3"}

\* every kind of bearer token: none, one that does not verify, and one signed
\* for each user id handed out so far or next
Tokens == {NoToken, BadToken} \cup {TokenFor(u) : u \in 1..MaxUsers}

NextSignupSignup == nextUserId <= MaxUsers /\ \E e \in Emails : Signup(e)

NextSignupDeleteUser == \E tok \in Tokens, id \in 1..MaxUsers : DeleteUser(tok, id)

NextSignup == NextSignupSignup \/ NextSignupDeleteUser

SpecSignup == InitEmpty /\ [][NextSignup]_vars

\* the store after three signups and the admin's delete of the third user,
\* whose token is still in circulation
InitGate ==
  /\ now = StartTime
  /\ blogs = <<>>
  /\ categories = {}
  /\ authors = {}
  /\ users = {[id |-> 1, email |-> "e1", role |-> "admin"],
              [id |-> 2, email |-> "e2", role |-> DefaultRole]}
  /\ nextBlogId = 1
  /\ nextRefId = 1
  /\ nextUserId = 4
  /\ resp = NoResp
  /\ procs = <<>>
  /\ conn = NoConn
  /\ assets = NoAssets

GateTokens == {NoToken, BadToken, TokenFor(1), TokenFor(2), TokenFor(3)}

NextAuthCreateBlog ==
  /\ nextBlogId <= MaxAuthDocs
  /\ \E tok \in GateTokens : CreateBlog(tok, ValidBody) \/ LegacyCreateBlog(tok, ValidBody)

NextAuthUpdateBlog ==
  \E tok \in GateTokens, id \in 1..MaxAuthDocs :
    UpdateBlog(tok, id, [NoBody EXCEPT !.status = Some("draft")])

NextAuthDeleteBlog == \E tok \in GateTokens, id \in 1..MaxAuthDocs : DeleteBlog(tok, id)

NextAuthScheduled == \E tok \in GateTokens : ListBlogs("scheduled", "r003", NoQuery, tok)

NextAuthCategory ==
  \E tok \in GateTokens, id \in 1..MaxAuthDocs :
    \/ (nextRefId <= MaxAuthDocs /\ CreateCategory(tok, Some(<<"a">>)))
    \/ UpdateCategory(tok, id, Some(<<"b">>))
    \/ DeleteCategory(tok, id)

NextAuthAuthor ==
  \E tok \in GateTokens, id \in 1..MaxAuthDocs :
    \/ (nextRefId <= MaxAuthDocs /\ CreateAuthor(tok, Some(<<"a">>)))
    \/ UpdateAuthor(tok, id, Some(<<"b">>))
    \/ DeleteAuthor(tok, id)

NextAuth ==
  \/ NextAuthCreateBlog \/ NextAuthUpdateBlog \/ NextAuthDeleteBlog
  \/ NextAuthScheduled \/ NextAuthCategory \/ NextAuthAuthor

SpecAuth == InitGate /\ [][NextAuth]_vars

\* C6: from the empty user collection, signups one after another: the user
\* returned by the first successful signup is admin, every later one is user
C6_FirstSignupIsAdmin ==
  (resp.op = "signup" /\ resp.status = 201)
    => /\ (resp.userId = 1 => resp.role = "admin")
       /\ (resp.userId > 1 => resp.role = "user")
       /\ \E u \in users : u.id = resp.userId /\ u.role = resp.role

\* a second successful signup, answered with role user while the first user is admin
C6_Witness ==
  /\ resp.op = "signup" /\ resp.status = 201 /\ resp.userId = 2 /\ resp.role = "user"
  /\ \E u \in users : u.id = 1 /\ u.role = "admin"

GuardedOps ==
  {"createBlog", "updateBlog", "deleteBlog", "createCategory", "updateCategory",
   "deleteCategory", "createAuthor", "updateAuthor", "deleteAuthor", "scheduled"}

TokenUser(tok) == {u \in users : tok > 0 /\ u.id = tok}

TokenIsAdmin(tok) == \E u \in TokenUser(tok) : u.role = "admin"

\* C7: a mutating blog, category or author request and the scheduled listing
\* change or reveal state only under a token of a stored admin: 401 without a
\* valid token of a stored user, 403 for a stored non-admin, store unchanged
C7_AdminOnly ==
  [][(resp' # resp /\ resp'.op \in GuardedOps)
       => /\ (TokenUser(resp'.tok) = {} => resp'.status = 401)
          /\ ((TokenUser(resp'.tok) # {} /\ ~TokenIsAdmin(resp'.tok)) => resp'.status = 403)
          /\ ~TokenIsAdmin(resp'.tok)
               => /\ <<blogs, categories, authors, users>>' = <<blogs, categories, authors, users>>
                  /\ resp'.blogs = <<>>
                  /\ resp'.fields \cap {"blogs", "blog", "category", "author"} = {}
    ]_vars

\* a guarded request of a stored non-admin user answered 403
C7_Witness ==
  /\ resp.op \in GuardedOps /\ resp.status = 403
  /\ \E u \in users : u.id = resp.tok /\ u.role = "user"

---------------------------------------------------------------------------
(* Pagination: listing requests with limit and page over stores of up to
   MaxSeed live blogs, with or without a draft and a scheduled blog *)

\* the i-th blog of a store built by creates of one title in successive seconds
SeedBlog(i, kind) ==
  LET at == StartTime - (MaxSeed + 3) + i
  IN [id |-> i,
      title |-> <<"p">>,
      slug |-> IF i = 1 THEN <<"p">> ELSE <<"p", "-">> \o TimestampSuffix(at),
      content |-> <<"c">>,
      excerpt |-> <<"c">>,
      imageAlt |-> <<"c">>,
      tags |-> <<(<<"a">>)>>,
      categoryId |-> 1,
      authorId |-> 2,
      author |-> 1,
      status |-> IF kind = "draft" THEN "draft" ELSE "published",
      isFeatured |-> TRUE,
      publishDate |-> IF kind = "scheduled" THEN Some(StartTime + MaxTime + 1) ELSE Some(at),
      metaDescription |-> <<>>,
      metaKeywords |-> <<>>,
      imageUrl |-> UploadPath,
      createdAt |-> at,
      updatedAt |-> at,
      cloudinaryPublicId |-> TRUE]

SeedStore(n, extra) ==
  [i \in 1..(n + 2 * extra) |->
     IF i <= n THEN SeedBlog(i, "live")
     ELSE IF i = n + 1 THEN SeedBlog(i, "draft")
     ELSE SeedBlog(i, "scheduled")]

InitPage ==
  /\ now = StartTime
  /\ \E n \in 0..MaxSeed, extra \in 0..1 : blogs = SeedStore(n, extra)
  /\ categories = {[id |-> 1, name |-> <<"a">>]}
  /\ authors = {[id |-> 2, name |-> <<"b">>]}
  /\ users = {[id |-> 1, email |-> "e1", role |-> "admin"],
              [id |-> 2, email |-> "e2", role |-> DefaultRole]}
  /\ nextBlogId = Len(blogs) + 1
  /\ nextRefId = 3
  /\ nextUserId = 3
  /\ resp = NoResp
  /\ procs = <<>>
  /\ conn = NoConn
  /\ assets = [current |-> BlogIds(blogs), orphaned |-> FALSE]

PageInputs == {None} \cup {Some(p) : p \in (0 - 1)..MaxPage}

LimitInputs == {None} \cup {Some(l) : l \in 1..MaxLimit}

\* a listing leaves the store as it is, so one request per store covers all
NextPageList ==
  /\ resp = NoResp
  /\ \E rev \in Revisions, ep \in {"general", "scheduled", "published", "featured"},
     st \in {None, Some("published")}, l \in LimitInputs, pg \in PageInputs :
       ListBlogs(ep, rev, [NoQuery EXCEPT !.status = st, !.limit = l, !.page = pg], AdminToken)

NextPage == NextPageList

SpecPage == InitPage /\ [][NextPage]_vars

ListingOps == {"general", "scheduled", "published", "featured"}

\* the number of stored blogs that match the filter of the answered listing
MatchCount(r) ==
  Cardinality({b \in Range(blogs) : ListFilter(r.op, r.rev, r.q, r.at, b)})

\* the number of items of page p of n matches under limit l
PageSize(n, l, p) == Min(l, Max(0, n - (p - 1) * l))

\* C8: a listing with limit L >= 1 and page p >= 1 over N matching documents
\* answers success with totalCount = N, totalPages = ceil(N / L) and exactly
\* min(L, max(0, N - (p-1)*L)) blogs
C8_PageArithmetic ==
  (resp.op \in ListingOps /\ IsSome(resp.q.limit) /\ IsSome(resp.q.page) /\ resp.q.page[1] >= 1)
    => LET L == resp.q.limit[1]
           p == resp.q.page[1]
           N == MatchCount(resp)
       IN /\ resp.status = 200
          /\ "success" \in resp.fields
          /\ resp.totalCount = N
          /\ resp.totalPages * L >= N
          /\ (resp.totalPages - 1) * L < N
          /\ Len(resp.blogs) = PageSize(N, L, p)

\* the published listing with limit 10 and page 2 over 25 qualifying blogs:
\* totalCount 25, totalPages 3 and 10 blogs
C8_Witness ==
  /\ resp.op = "published" /\ resp.status = 200
  /\ resp.q.limit = Some(10) /\ resp.q.page = Some(2)
  /\ resp.totalCount = 25 /\ resp.totalPages = 3 /\ Len(resp.blogs) = 10

\* C9: with a limit supplied, an absent or non-positive page is served as
\* page 1 (skip 0, first page, currentPage = 1) and a positive page p with
\* skip (p-1)*limit and currentPage = p
C9_NonPositivePageIsFirst ==
  (resp.op \in ListingOps /\ IsSome(resp.q.limit))
    => LET L == resp.q.limit[1]
           p == IF resp.q.page = None \/ resp.q.page[1] <= 0 THEN 1 ELSE resp.q.page[1]
       IN /\ resp.status = 200
          /\ resp.currentPage = p
          /\ Len(resp.blogs) = PageSize(MatchCount(resp), L, p)

\* C10: the response of a listing carries currentPage and totalPages exactly
\* when the request carried a limit; without a limit both are omitted
C10_PagingFieldsIffLimit ==
  (resp.op \in ListingOps /\ resp.status = 200)
    => /\ IsSome(resp.q.limit) => {"currentPage", "totalPages"} \subseteq resp.fields
       /\ resp.q.limit = None => {"currentPage", "totalPages"} \cap resp.fields = {}

---------------------------------------------------------------------------
(* Interleaved deletes: the category and author DELETE handlers advance one
   awaited store operation at a time while blog creates and updates are served
   in between *)

\* a request slot: the handler it runs, the awaited operation it is about to
\* issue, what its count returned, the answer it gave, and (for the record)
\* the references stored at the moment its delete ran
Idle ==
  [kind |-> "none", pc |-> "idle", tok |-> NoToken, target |-> 0,
   count |-> 0, refsAtDelete |-> 0, status |-> 0]

InitConc ==
  /\ now = StartTime
  /\ blogs = <<>>
  /\ categories = {[id |-> 1, name |-> <<"a">>]}
  /\ authors = {[id |-> 2, name |-> <<"b">>]}
  /\ users = {[id |-> 1, email |-> "e1", role |-> "admin"],
              [id |-> 2, email |-> "e2", role |-> DefaultRole]}
  /\ nextBlogId = 1
  /\ nextRefId = 3
  /\ nextUserId = 3
  /\ resp = NoResp
  /\ procs = [p \in 1..MaxProcs |-> Idle]
  /\ conn = NoConn
  /\ assets = NoAssets

ConcFrame == UNCHANGED <<now, blogs, users, nextBlogId, nextRefId, nextUserId, conn, assets>>

\* the answer of slot p
Answer(p, status, fields) ==
  [NoResp EXCEPT !.op = procs[p].kind, !.tok = procs[p].tok, !.at = now,
                 !.target = procs[p].target, !.status = status, !.fields = fields]

\* mutant: a delete that goes on whatever the count returned
InUse_Never(n) == FALSE

\* if (blogsWithCategory > 0) and if (blogsWithAuthor > 0)
InUse(n) == n > 0

\* the request passes authenticate and authorizeAdmin and enters the handler
StartDelete(p, kind, tok, id) ==
  /\ procs[p].pc = "idle"
  /\ LET gate == AdminGate(tok, users)
         started == [Idle EXCEPT !.kind = kind, !.tok = tok, !.target = id]
     IN IF gate # 0
        THEN /\ procs' = [procs EXCEPT ![p] = [started EXCEPT !.pc = "done", !.status = gate]]
             /\ resp' = [NoResp EXCEPT !.op = kind, !.tok = tok, !.at = now, !.target = id,
                                       !.status = gate, !.fields = {"message"}]
        ELSE /\ procs' = [procs EXCEPT ![p] = [started EXCEPT !.pc = "count"]]
             /\ UNCHANGED resp
  /\ UNCHANGED <<categories, authors>>
  /\ ConcFrame

\* await Blog.countDocuments({ categoryId }) or ({ authorId }), and the 400
CountReferences(p) ==
  /\ procs[p].pc = "count"
  /\ LET n == IF procs[p].kind = "deleteCategory"
              THEN BlogsWithCategory(blogs, procs[p].target)
              ELSE BlogsWithAuthor(blogs, procs[p].target)
     IN IF InUse(n)
        THEN /\ procs' = [procs EXCEPT ![p].pc = "done", ![p].count = n, ![p].status = 400]
             /\ resp' = [Answer(p, 400, {"success", "message"}) EXCEPT !.blogsCount = n]
        ELSE /\ procs' = [procs EXCEPT ![p].count = n,
                                       ![p].pc = IF procs[p].kind = "deleteCategory"
                                                 THEN "find" ELSE "findAndDelete"]
             /\ UNCHANGED resp
  /\ UNCHANGED <<categories, authors>>
  /\ ConcFrame

\* await Category.findById(id), and the 404
FindCategory(p) ==
  /\ procs[p].pc = "find"
  /\ IF RefById(categories, procs[p].target) = {}
     THEN /\ procs' = [procs EXCEPT ![p].pc = "done", ![p].status = 404]
          /\ resp' = Answer(p, 404, {"success", "message"})
     ELSE /\ procs' = [procs EXCEPT ![p].pc = "remove"]
          /\ UNCHANGED resp
  /\ UNCHANGED <<categories, authors>>
  /\ ConcFrame

\* await category.deleteOne(), and the success answer
RemoveCategory(p) ==
  /\ procs[p].pc = "remove"
  /\ categories' = categories \ RefById(categories, procs[p].target)
  /\ procs' = [procs EXCEPT ![p].pc = "done", ![p].status = 200,
                            ![p].refsAtDelete = BlogsWithCategory(blogs, procs[p].target)]
  /\ resp' = Answer(p, 200, {"success", "message"})
  /\ UNCHANGED authors
  /\ ConcFrame

\* await Author.findByIdAndDelete(id), the 404 and the success answer
FindAndDeleteAuthor(p) ==
  /\ procs[p].pc = "findAndDelete"
  /\ IF RefById(authors, procs[p].target) = {}
     THEN /\ procs' = [procs EXCEPT ![p].pc = "done", ![p].status = 404]
          /\ resp' = Answer(p, 404, {"success", "message"})
          /\ UNCHANGED authors
     ELSE /\ authors' = authors \ RefById(authors, procs[p].target)
          /\ procs' = [procs EXCEPT ![p].pc = "done", ![p].status = 200,
                                    ![p].refsAtDelete = BlogsWithAuthor(blogs, procs[p].target)]
          /\ resp' = Answer(p, 200, {"success", "message"})
  /\ UNCHANGED categories
  /\ ConcFrame

ConcTokens == {AdminToken, TokenFor(2)}

\* the stored category, the stored author and an id that is not stored
ConcTargets == {1, 2, 3}

NextConcStart ==
  \E p \in 1..MaxProcs, kind \in {"deleteCategory", "deleteAuthor"},
     tok \in ConcTokens, id \in ConcTargets :
    StartDelete(p, kind, tok, id)

NextConcCount == \E p \in 1..MaxProcs : CountReferences(p)

NextConcFind == \E p \in 1..MaxProcs : FindCategory(p)

NextConcRemove == \E p \in 1..MaxProcs : RemoveCategory(p)

NextConcFindAndDelete == \E p \in 1..MaxProcs : FindAndDeleteAuthor(p)

NextConcCreateBlog ==
  /\ nextBlogId <= MaxConcBlogs
  /\ \E c \in ConcTargets :
       CreateBlog(AdminToken, [ValidBody EXCEPT !.categoryId = Some(c)])

NextConcUpdateBlog ==
  \E id \in 1..MaxConcBlogs, c \in ConcTargets :
    UpdateBlog(AdminToken, id, [NoBody EXCEPT !.categoryId = Some(c)])

NextConc ==
  \/ NextConcStart \/ NextConcCount \/ NextConcFind \/ NextConcRemove
  \/ NextConcFindAndDelete \/ NextConcCreateBlog \/ NextConcUpdateBlog

SpecConc == InitConc /\ [][NextConc]_vars

\* C5: a category or author DELETE decides on the count it took: once the
\* count returned 0 nothing that is written afterwards stops it, so it answers
\* 400 exactly when its own count was positive, and when it answers 200 its
\* count was 0 and the document is removed, whatever references are stored
C5_DeleteDecidedAtCount ==
  \A p \in DOMAIN procs :
    (procs[p].pc = "done" /\ AdminGate(procs[p].tok, users) = 0)
      => /\ procs[p].status = 400 <=> procs[p].count > 0
         /\ procs[p].status = 200
              => /\ procs[p].count = 0
                 /\ procs[p].kind = "deleteCategory" => RefById(categories, procs[p].target) = {}
                 /\ procs[p].kind = "deleteAuthor" => RefById(authors, procs[p].target) = {}

\* the orphan: a category DELETE counted 0, a blog referencing the category was
\* then stored, the DELETE then removed the category and answered 200, and the
\* stored blog references a category that no longer exists
C5_Witness ==
  \E p \in DOMAIN procs :
    /\ procs[p].kind = "deleteCategory" /\ procs[p].pc = "done" /\ procs[p].status = 200
    /\ procs[p].count = 0 /\ procs[p].refsAtDelete > 0
    /\ resp.op = "deleteCategory" /\ resp.status = 200 /\ resp.target = procs[p].target
    /\ \E b \in Range(blogs) : b.categoryId = procs[p].target
    /\ RefById(categories, procs[p].target) = {}

---------------------------------------------------------------------------
(* Tags: creates and updates of every router revision with tags given as a
   comma-separated string or as an array *)

MaxTagBlogs == 2

ArrayTags(items) == [isArray |-> TRUE, items |-> items, text |-> <<>>]

TagInputs ==
  {None,
   Some(StringTags(<<"a", ",", " ", "b", " ", ",", ",", " ", "c">>)),
   Some(StringTags(<<>>)),
   Some(StringTags(<<" ", ",">>)),
   Some(ArrayTags(<<>>)),
   Some(ArrayTags(<< <<" ">>, <<"b", " ">> >>))}

NextTagsCreate ==
  /\ nextBlogId <= MaxTagBlogs
  /\ \E t \in TagInputs : CreateBlog(AdminToken, [ValidBody EXCEPT !.tags = t])

NextTagsSimpleCreate ==
  /\ nextBlogId <= MaxTagBlogs
  /\ \E t \in TagInputs : SimpleCreateBlog(AdminToken, [ValidBody EXCEPT !.tags = t])

NextTagsLegacyCreate ==
  /\ nextBlogId <= MaxTagBlogs
  /\ \E t \in TagInputs : LegacyCreateBlog(AdminToken, [ValidBody EXCEPT !.tags = t])

NextTagsUpdate ==
  \E id \in 1..MaxTagBlogs, t \in TagInputs :
    UpdateBlog(AdminToken, id, [NoBody EXCEPT !.tags = t])

NextTagsSimpleUpdate ==
  \E id \in 1..MaxTagBlogs, t \in TagInputs :
    SimpleUpdateBlog(AdminToken, id, [NoBody EXCEPT !.tags = t])

NextTagsLegacyUpdate ==
  \E id \in 1..MaxTagBlogs, t \in TagInputs :
    LegacyUpdateBlog(AdminToken, id, [NoBody EXCEPT !.tags = t])

NextTags ==
  \/ NextTagsCreate \/ NextTagsSimpleCreate \/ NextTagsLegacyCreate
  \/ NextTagsUpdate \/ NextTagsSimpleUpdate \/ NextTagsLegacyUpdate

SpecTags == InitBoot /\ [][NextTags]_vars

\* a create or update that reached the handler's tag handling with tags supplied
TagRequest(r) ==
  /\ r.op \in {"createBlog", "updateBlog"}
  /\ r.status \notin {401, 403, 404}
  /\ IsSome(r.body.tags)

\* the claim's normal form of a tags input: the elements of the array, or the
\* pieces of the string between commas, each trimmed, the empty ones dropped
NormalizedTags(tags) ==
  LET pieces == IF tags.isArray THEN tags.items ELSE SplitComma(tags.text, <<>>)
      trimmed == [i \in 1..Len(pieces) |-> Trim(pieces[i])]
  IN FilterSeq(trimmed, Range(trimmed) \ {<<>>})

\* C11: on blog create and update with tags supplied, tags that normalize
\* (split on commas, trim, drop empty elements) to the empty sequence are
\* answered 400 with nothing written, a successful request stores the
\* normalized tags, and every stored blog has at least one tag and no empty tag
C11_TagsNormalized ==
  /\ [](\A b \in Range(blogs) : b.tags # <<>> /\ \A i \in 1..Len(b.tags) : b.tags[i] # <<>>)
  /\ [][(resp' # resp /\ TagRequest(resp'))
          => /\ NormalizedTags(resp'.body.tags[1]) = <<>>
                  => (resp'.status = 400 /\ blogs' = blogs)
             /\ resp'.status \in {200, 201}
                  => \E b \in Range(blogs') :
                       b.id = resp'.target /\ b.tags = NormalizedTags(resp'.body.tags[1])]_vars

---------------------------------------------------------------------------
(* slugify as a function of its text: every text over a small alphabet is
   converted, and the result is converted again *)

MaxTextLen == 4

TextChars == {"a", "B", " ", "&", "-", "!", "_"}

Texts == UNION {[1..n -> TextChars] : n \in 0..MaxTextLen}

InitSlugify ==
  /\ now = StartTime
  /\ blogs = <<>>
  /\ categories = {}
  /\ authors = {}
  /\ users = {}
  /\ nextBlogId = 1
  /\ nextRefId = 1
  /\ nextUserId = 1
  /\ \E t \in Texts : resp = [NoResp EXCEPT !.body = [NoBody EXCEPT !.title = Some(t)]]
  /\ procs = <<>>
  /\ conn = NoConn
  /\ assets = NoAssets

\* slugify(title)
ApplySlugify ==
  /\ resp.op = "none"
  /\ resp' = [resp EXCEPT !.op = "slugify", !.slug = slugify(resp.body.title[1])]
  /\ UNCHANGED <<now, blogs, categories, authors, users, nextBlogId, nextRefId, nextUserId, procs, conn, assets>>

\* slugify(slug) of a slug that slugify produced
ReapplySlugify ==
  /\ resp.op = "slugify"
  /\ resp' = [resp EXCEPT !.op = "slugified", !.body = [@ EXCEPT !.slug = Some(resp.slug)],
                          !.slug = slugify(resp.slug)]
  /\ UNCHANGED <<now, blogs, categories, authors, users, nextBlogId, nextRefId, nextUserId, procs, conn, assets>>

NextSlugify == ApplySlugify \/ ReapplySlugify

SpecSlugify == InitSlugify /\ [][NextSlugify]_vars

\* C12: slugify is idempotent: converting the slug of any text again gives
\* the same slug
C12_SlugifyIdempotent ==
  resp.op = "slugified" => resp.slug = resp.body.slug[1]

\* a text with an ampersand, a removed character and a hyphen next to it was
\* converted twice and its slug is neither empty nor the text itself
C12_Witness ==
  /\ resp.op = "slugified"
  /\ resp.body.title[1] = <<"B", "-", "!", "&">>
  /\ resp.body.slug[1] = <<"b", "-", "a", "n", "d">>
  /\ resp.slug = <<"b", "-", "a", "n", "d">>

---------------------------------------------------------------------------
(* Explicit slugs: creates and updates that supply a slug, among them slugs
   of other blogs, the blog's own slug and texts without any word character *)

MaxCustomBlogs == 2

CustomTitles == {<<"h", "i">>, <<"!">>}

CustomSlugs ==
  {None, Some(<<"h", "i">>), Some(<<"H", "i">>), Some(<<"a", " ", "b">>), Some(<<"!", "!">>)}

NextCustomCreate ==
  /\ nextBlogId <= MaxCustomBlogs
  /\ \E t \in CustomTitles, sl \in CustomSlugs :
       CreateBlog(AdminToken, [ValidBody EXCEPT !.title = Some(t), !.slug = sl])

NextCustomUpdate ==
  \E id \in 1..MaxCustomBlogs, sl \in CustomSlugs \ {None} :
    UpdateBlog(AdminToken, id, [NoBody EXCEPT !.slug = sl])

NextCustomSimpleUpdate ==
  \E id \in 1..MaxCustomBlogs, sl \in CustomSlugs \ {None} :
    SimpleUpdateBlog(AdminToken, id, [NoBody EXCEPT !.slug = sl])

NextCustomLegacyUpdate ==
  \E id \in 1..MaxCustomBlogs, sl \in CustomSlugs \ {None} :
    LegacyUpdateBlog(AdminToken, id, [NoBody EXCEPT !.slug = sl])

NextCustom ==
  \/ NextCustomCreate \/ NextCustomUpdate \/ NextCustomSimpleUpdate \/ NextCustomLegacyUpdate

SpecCustom == InitBoot /\ [][NextCustom]_vars

\* the text a create or update request asks to be turned into the slug: the
\* explicit slug if one is supplied, on create otherwise the title
SlugSource(r) ==
  IF ~Falsy(r.body.slug) THEN r.body.slug
  ELSE IF r.op = "createBlog" THEN r.body.title
  ELSE None

\* C13: no stored blog has an empty slug, and a create or update whose title
\* (create without explicit slug) or explicit slug slugifies to the empty
\* string is answered 400 and leaves the store unchanged
C13_NoEmptySlug ==
  /\ [](\A b \in Range(blogs) : b.slug # <<>>)
  /\ [][(/\ resp' # resp
         /\ resp'.op \in {"createBlog", "updateBlog"}
         /\ resp'.status \notin {401, 403, 404}
         /\ IsSome(SlugSource(resp'))
         /\ slugify(SlugSource(resp')[1]) = <<>>)
          => (resp'.status = 400 /\ blogs' = blogs)]_vars

\* the blog an update request addresses, as stored before the request
Addressed(r) == CHOOSE b \in Range(blogs) : b.id = r.target

\* an update that reached the handler's slug handling with a slug supplied
SlugUpdate(r) ==
  /\ r.op = "updateBlog"
  /\ r.status \notin {401, 403, 404}
  /\ ~Falsy(r.body.slug)

\* C14: an update whose explicit slug slugifies to a value other than the
\* blog's current slug and equal to the slug of another stored blog is answered
\* 400 and changes no stored blog; an update with the blog's own current slug
\* is not a collision and succeeds
C14_UpdateSlugCollision ==
  [][(resp' # resp /\ SlugUpdate(resp'))
       => /\ (/\ slugify(resp'.body.slug[1]) # Addressed(resp').slug
              /\ \E b \in Range(blogs) : b.id # resp'.target
                                         /\ b.slug = slugify(resp'.body.slug[1]))
               => (resp'.status = 400 /\ blogs' = blogs)
          /\ resp'.body.slug[1] = Addressed(resp').slug
               => (resp'.status = 200 /\ blogs' = blogs)]_vars

\* an update asked for the slug of another stored blog and was refused, with
\* both blogs stored under different slugs
C14_Witness ==
  /\ resp.op = "updateBlog" /\ resp.status = 400 /\ ~Falsy(resp.body.slug)
  /\ \E b, c \in Range(blogs) :
       /\ b.id = resp.target /\ c.id # resp.target
       /\ c.slug = slugify(resp.body.slug[1]) /\ b.slug # c.slug

---------------------------------------------------------------------------
(* Field updates: creates, then one update of a stored blog by any router
   revision, with one field supplied at a time, valid or empty *)

MaxEditBlogs == 2

EditTitles == {<<"h", "i">>, <<"!">>}

StringKeywords(t) == [isArray |-> FALSE, items |-> <<>>, text |-> t]

\* PUT bodies: nothing, each field alone, the empty string where a text is
\* expected, and two fields together
EditBodies ==
  {NoBody,
   [NoBody EXCEPT !.title = Some(<<"a", "b">>)],
   [NoBody EXCEPT !.title = Some(<<>>)],
   [NoBody EXCEPT !.content = Some(<<"d">>)],
   [NoBody EXCEPT !.content = Some(<<>>)],
   [NoBody EXCEPT !.excerpt = Some(<<"d">>)],
   [NoBody EXCEPT !.excerpt = Some(<<>>)],
   [NoBody EXCEPT !.imageAlt = Some(<<"d">>)],
   [NoBody EXCEPT !.imageAlt = Some(<<>>)],
   [NoBody EXCEPT !.metaDescription = Some(<<"d">>)],
   [NoBody EXCEPT !.metaKeywords = Some(StringKeywords(<<"a", ",", "b">>))],
   [NoBody EXCEPT !.tags = Some(StringTags(<<"b", ",", "c">>))],
   [NoBody EXCEPT !.tags = Some(StringTags(<<>>))],
   [NoBody EXCEPT !.categoryId = Some(3)],
   [NoBody EXCEPT !.categoryId = Some(0)],
   [NoBody EXCEPT !.authorId = Some(4)],
   [NoBody EXCEPT !.status = Some("draft")],
   [NoBody EXCEPT !.isFeatured = Some(TRUE)],
   [NoBody EXCEPT !.publishDate = Some(StartTime + 1)],
   [NoBody EXCEPT !.slug = Some(<<"a", "b">>)],
   [NoBody EXCEPT !.slug = Some(<<"h", "i">>)],
   [NoBody EXCEPT !.slug = Some(<<>>)],
   [NoBody EXCEPT !.imageUrl = Some(<<"u">>)],
   [NoBody EXCEPT !.file = TRUE],
   [NoBody EXCEPT !.title = Some(<<"a", "b">>), !.status = Some("draft")]}

\* POST bodies: complete ones, and ones a check of the handler refuses
EditCreateBodies ==
  {[ValidBody EXCEPT !.title = Some(t)] : t \in EditTitles}
    \cup {[ValidBody EXCEPT !.excerpt = None],
          [ValidBody EXCEPT !.tags = Some(StringTags(<<>>))],
          [ValidBody EXCEPT !.slug = Some(<<"h", "i">>)],
          [ValidBody EXCEPT !.file = FALSE]}

NextEditCreate ==
  /\ nextBlogId <= MaxEditBlogs
  /\ resp.op # "updateBlog"
  /\ \E body \in EditCreateBodies : CreateBlog(AdminToken, body)

NextEditUpdate ==
  /\ resp.op # "updateBlog"
  /\ \E id \in 1..MaxEditBlogs, body \in EditBodies : UpdateBlog(AdminToken, id, body)

NextEditSimpleUpdate ==
  /\ resp.op # "updateBlog"
  /\ \E id \in 1..MaxEditBlogs, body \in EditBodies : SimpleUpdateBlog(AdminToken, id, body)

NextEditLegacyUpdate ==
  /\ resp.op # "updateBlog"
  /\ \E id \in 1..MaxEditBlogs, body \in EditBodies : LegacyUpdateBlog(AdminToken, id, body)

NextEdit == NextEditCreate \/ NextEditUpdate \/ NextEditSimpleUpdate \/ NextEditLegacyUpdate

SpecEdit == InitBoot /\ [][NextEdit]_vars

UpdateFields ==
  {"title", "content", "excerpt", "imageAlt", "metaDescription", "metaKeywords", "tags",
   "categoryId", "authorId", "status", "isFeatured", "publishDate", "slug", "imageUrl"}

\* the request does not carry the field (the image counts as carried when a
\* file is uploaded)
Omitted(body, f) ==
  IF f = "imageUrl" THEN body.imageUrl = None /\ ~body.file ELSE body[f] = None

\* an update that found its blog
UpdateOfStored(r) == r.op = "updateBlog" /\ r.status \notin {401, 403, 404}

\* C15: after a successful update every field the request omits has the value
\* it had before, and an update that sends the empty string for title,
\* content, excerpt or imageAlt is answered 400
C15_PartialUpdate ==
  [][(resp' # resp /\ UpdateOfStored(resp'))
       => /\ resp'.status = 200
               => \A f \in UpdateFields :
                    Omitted(resp'.body, f)
                      => \E b \in Range(blogs') :
                           b.id = resp'.target /\ b[f] = Addressed(resp')[f]
          /\ (\E f \in {"title", "content", "excerpt", "imageAlt"} : resp'.body[f] = Some(<<>>))
               => resp'.status = 400]_vars

\* a blog create or update that passed the gate
BlogWrite(r) == r.op \in {"createBlog", "updateBlog"} /\ r.status \notin {401, 403}

\* C16: a blog create or update answered 400 leaves the stored blogs exactly
\* as they were; a successful create adds exactly one document and changes no
\* other, a successful update changes no document but the addressed one
C16_ValidationBeforeMutation ==
  [][(resp' # resp /\ BlogWrite(resp'))
       => /\ resp'.status = 400 => blogs' = blogs
          /\ resp'.status = 201
               => /\ Len(blogs') = Len(blogs) + 1
                  /\ SubSeq(blogs', 1, Len(blogs)) = blogs
                  /\ blogs'[Len(blogs')].id = resp'.target
          /\ resp'.status = 200
               => /\ Len(blogs') = Len(blogs)
                  /\ \A i \in 1..Len(blogs) :
                       /\ blogs'[i].id = blogs[i].id
                       /\ blogs[i].id # resp'.target => blogs'[i] = blogs[i]]_vars

\* an update with an empty title was refused while two blogs are stored
C16_Witness ==
  /\ resp.op = "updateBlog" /\ resp.status = 400
  /\ resp.body.title = Some(<<>>)
  /\ Len(blogs) = 2

---------------------------------------------------------------------------
(* Featured listing: featured and plain blogs, published, scheduled and draft,
   listed with and without a status parameter *)

MaxFeatBlogs == 2

\* GET /featured on the oldest router: router.get("/:id") is registered first
\* and takes the request with id "featured", which findById cannot cast
LegacyFeatured(q) ==
  /\ resp' = [NoResp EXCEPT !.op = "featured", !.rev = "routes", !.q = q, !.at = now,
                            !.status = 500, !.fields = {"success", "message", "error"}]
  /\ UNCHANGED <<now, blogs, categories, authors, users, nextBlogId, nextRefId, nextUserId, procs, conn, assets>>

FeatStatusInputs == {None, Some("draft"), Some("published")}

NextFeatCreate ==
  /\ nextBlogId <= MaxFeatBlogs
  /\ \E f \in BOOLEAN :
       \/ \E pd \in {None, Some(StartTime + MaxTime + 1)} :
            CreateBlog(AdminToken, [ValidBody EXCEPT !.isFeatured = Some(f), !.publishDate = pd])
       \/ CreateBlog(AdminToken, [ValidBody EXCEPT !.isFeatured = Some(f),
                                                   !.status = Some("draft")])

NextFeatList ==
  \E rev \in {"r003", "r004"}, st \in FeatStatusInputs :
    ListBlogs("featured", rev, [NoQuery EXCEPT !.status = st], NoToken)

NextFeatLegacyList == \E st \in FeatStatusInputs : LegacyFeatured([NoQuery EXCEPT !.status = st])

NextFeat == NextFeatCreate \/ NextFeatList \/ NextFeatLegacyList \/ Tick

SpecFeat == InitBoot /\ [][NextFeat]_vars

\* the status the claim selects on: the request's parameter, else published
FeaturedStatus(q) == IF IsSome(q.status) THEN q.status[1] ELSE "published"

FeaturedIds(q, at) ==
  {b.id : b \in {x \in Range(blogs) :
                   /\ x.isFeatured
                   /\ x.status = FeaturedStatus(q)
                   /\ (FeaturedStatus(q) = "published" => PubliclyVisible(x, at))}}

\* C17: the featured listing selects exactly the blogs with isFeatured true and
\* status S, S being the status parameter if given and published otherwise,
\* restricted to publishDate absent or not after the request when S is published
C17_FeaturedSelection ==
  (resp.op = "featured" /\ resp.status = 200 /\ resp.q.limit = None)
    => /\ Range(resp.blogs) = FeaturedIds(resp.q, resp.at)
       /\ Len(resp.blogs) = Cardinality(FeaturedIds(resp.q, resp.at))

---------------------------------------------------------------------------
(* Search: listings with a search term over blogs of two titles, published,
   scheduled and draft *)

MaxSearchBlogs == 2

SearchTitles == {<<"a", "b", "c">>, <<"h", "i">>}

\* no search, a term of two characters and a term of three
SearchTerms == {None, Some(<<"H", "i">>), Some(<<"a", "b", "c">>)}

NextSearchCreate ==
  /\ nextBlogId <= MaxSearchBlogs
  /\ \E t \in SearchTitles :
       \/ \E pd \in {None, Some(StartTime + MaxTime + 1)} :
            CreateBlog(AdminToken, [ValidBody EXCEPT !.title = Some(t), !.publishDate = pd])
       \/ CreateBlog(AdminToken, [ValidBody EXCEPT !.title = Some(t), !.status = Some("draft")])

NextSearchGeneral ==
  \E rev \in Revisions, st \in {None, Some("published")}, term \in SearchTerms :
    ListBlogs("general", rev, [NoQuery EXCEPT !.status = st, !.search = term], NoToken)

NextSearchPublished ==
  \E rev \in {"r003", "r004"}, term \in SearchTerms :
    ListBlogs("published", rev, [NoQuery EXCEPT !.search = term], NoToken)

NextSearch == NextSearchCreate \/ NextSearchGeneral \/ NextSearchPublished

SpecSearch == InitBoot /\ [][NextSearch]_vars

\* the term occurs in the title or in the content of the blog
MatchesSearch(term, b) == RegexMatch(term, b.title) \/ RegexMatch(term, b.content)

\* the predicates of the endpoint other than the search
NonSearch(r, b) ==
  IF r.op = "published" THEN PubliclyVisible(b, r.at)
  ELSE IsSome(r.q.status) => b.status = r.q.status[1]

SearchedIds(r) ==
  {b.id : b \in {x \in Range(blogs) : NonSearch(r, x) /\ MatchesSearch(r.q.search[1], x)}}

\* C18: a general or published listing with a search term returns exactly the
\* blogs that satisfy the endpoint's other predicates (the status filter, or
\* status published and the publishDate clause) and match the search
C18_SearchIsConjoined ==
  (resp.op \in {"general", "published"} /\ resp.status = 200 /\ HasSearch(resp.q))
    => /\ Range(resp.blogs) = SearchedIds(resp)
       /\ Len(resp.blogs) = Cardinality(SearchedIds(resp))

---------------------------------------------------------------------------
(* Store connection: requests that arrive while the connection is being set
   up, for each of the three connect routines of the repository *)

MaxRequests == 3

ConnectRoutines == {"dbConnect", "server", "serverless"}

Waiting == [pc |-> "idle"]

InitDb ==
  /\ now = StartTime
  /\ blogs = <<>>
  /\ categories = {}
  /\ authors = {}
  /\ users = {}
  /\ nextBlogId = 1
  /\ nextRefId = 1
  /\ nextUserId = 1
  /\ resp = NoResp
  /\ procs = [p \in 1..MaxRequests |-> Waiting]
  /\ \E impl \in ConnectRoutines : conn = [NoConn EXCEPT !.impl = impl]
  /\ assets = NoAssets

DbFrame ==
  UNCHANGED <<now, blogs, categories, authors, users, nextBlogId, nextRefId, nextUserId, resp, assets>>

\* mongoose.connect(uri, options): one more connection setup is started
StartConnect(c) == [c EXCEPT !.connects = @ + 1, !.readyState = 2]

\* dbConnect() of lib/dbConnect.js up to its await: the cached connection is
\* returned, or the cached promise is created if there is none and awaited
DbConnectEnter(p) ==
  /\ conn.impl = "dbConnect" /\ procs[p].pc = "idle"
  /\ IF conn.cachedConn
     THEN /\ procs' = [procs EXCEPT ![p].pc = "done"]
          /\ UNCHANGED conn
     ELSE /\ procs' = [procs EXCEPT ![p].pc = "awaitConnect"]
          /\ conn' = IF conn.cachedPromise THEN conn
                     ELSE [StartConnect(conn) EXCEPT !.cachedPromise = TRUE]
  /\ DbFrame

\* cached.conn = await cached.promise
DbConnectResume(p) ==
  /\ conn.impl = "dbConnect" /\ procs[p].pc = "awaitConnect" /\ conn.readyState = 1
  /\ procs' = [procs EXCEPT ![p].pc = "done"]
  /\ conn' = [conn EXCEPT !.cachedConn = TRUE]
  /\ DbFrame

\* connectDB() of server.js up to its await: nothing to do when isConnected,
\* mongoose.connect otherwise
ServerConnectEnter(p) ==
  /\ conn.impl = "server" /\ procs[p].pc = "idle"
  /\ IF conn.isConnected
     THEN /\ procs' = [procs EXCEPT ![p].pc = "done"]
          /\ UNCHANGED conn
     ELSE /\ procs' = [procs EXCEPT ![p].pc = "awaitConnect"]
          /\ conn' = [StartConnect(conn) EXCEPT
                        !.readyState = IF conn.readyState = 1 THEN 1 ELSE 2]
  /\ DbFrame

\* isConnected = true after the awaited mongoose.connect
ServerConnectResume(p) ==
  /\ conn.impl = "server" /\ procs[p].pc = "awaitConnect" /\ conn.readyState = 1
  /\ procs' = [procs EXCEPT ![p].pc = "done"]
  /\ conn' = [conn EXCEPT !.isConnected = TRUE]
  /\ DbFrame

\* connectDB() of the serverless server up to its first await: nothing to do
\* when isConnected and readyState is 1; mongoose.disconnect when the
\* readyState is not 0; mongoose.connect otherwise
ServerlessConnectEnter(p) ==
  /\ conn.impl = "serverless" /\ procs[p].pc = "idle"
  /\ IF conn.isConnected /\ conn.readyState = 1
     THEN /\ procs' = [procs EXCEPT ![p].pc = "done"]
          /\ UNCHANGED conn
     ELSE IF conn.readyState # 0
     THEN /\ procs' = [procs EXCEPT ![p].pc = "awaitDisconnect"]
          /\ conn' = [conn EXCEPT !.disconnects = @ + 1, !.readyState = 3]
     ELSE /\ procs' = [procs EXCEPT ![p].pc = "awaitConnect"]
          /\ conn' = StartConnect(conn)
  /\ DbFrame

\* mongoose.connect after the awaited mongoose.disconnect
ServerlessReconnect(p) ==
  /\ conn.impl = "serverless" /\ procs[p].pc = "awaitDisconnect" /\ conn.readyState # 3
  /\ procs' = [procs EXCEPT ![p].pc = "awaitConnect"]
  /\ conn' = StartConnect(conn)
  /\ DbFrame

\* isConnected = true after the awaited mongoose.connect
ServerlessConnectResume(p) ==
  /\ conn.impl = "serverless" /\ procs[p].pc = "awaitConnect" /\ conn.readyState = 1
  /\ procs' = [procs EXCEPT ![p].pc = "done"]
  /\ conn' = [conn EXCEPT !.isConnected = TRUE]
  /\ DbFrame

\* the catch block: the awaited mongoose.connect was torn down
ServerlessConnectFail(p) ==
  /\ conn.impl = "serverless" /\ procs[p].pc = "awaitConnect" /\ conn.readyState \in {0, 3}
  /\ procs' = [procs EXCEPT ![p].pc = "failed"]
  /\ conn' = [conn EXCEPT !.isConnected = FALSE]
  /\ DbFrame

\* the driver finishes connecting
ConnectCompletes ==
  /\ conn.readyState = 2
  /\ conn' = [conn EXCEPT !.readyState = 1]
  /\ UNCHANGED procs
  /\ DbFrame

\* the driver finishes disconnecting
DisconnectCompletes ==
  /\ conn.readyState = 3
  /\ conn' = [conn EXCEPT !.readyState = 0]
  /\ UNCHANGED procs
  /\ DbFrame

NextDb ==
  \/ \E p \in 1..MaxRequests :
       \/ DbConnectEnter(p) \/ DbConnectResume(p)
       \/ ServerConnectEnter(p) \/ ServerConnectResume(p)
       \/ ServerlessConnectEnter(p) \/ ServerlessReconnect(p)
       \/ ServerlessConnectResume(p) \/ ServerlessConnectFail(p)
  \/ ConnectCompletes
  \/ DisconnectCompletes

SpecDb == InitDb /\ [][NextDb]_vars

\* C19: for any number of requests, also concurrent ones, connection setup is
\* started at most once, no connection is torn down, and a request proceeds
\* only with the connection established
C19_SingleConnectionSetup ==
  /\ conn.connects <= 1
  /\ conn.disconnects = 0
  /\ \A p \in DOMAIN procs : procs[p].pc = "done" => conn.readyState = 1

---------------------------------------------------------------------------
(* Blog deletion: blogs with and without a stored image asset, deleted by
   every router revision while the asset deletion succeeds or fails *)

MaxDelBlogs == 2

DelTitles == {<<"h", "i">>, <<"a", "b">>}

NextDelCreate ==
  /\ nextBlogId <= MaxDelBlogs
  /\ \E t \in DelTitles : CreateBlog(AdminToken, [ValidBody EXCEPT !.title = Some(t)])

NextDelLegacyCreate ==
  /\ nextBlogId <= MaxDelBlogs
  /\ \E t \in DelTitles : LegacyCreateBlog(AdminToken, [ValidBody EXCEPT !.title = Some(t)])

NextDelDelete ==
  \E rev \in Revisions, tok \in {AdminToken, TokenFor(2)}, id \in 1..MaxDelBlogs,
     destroyOk \in BOOLEAN :
    DeleteBlogWith(rev, tok, id, destroyOk)

NextDel == NextDelCreate \/ NextDelLegacyCreate \/ NextDelDelete

SpecDel == InitBoot /\ [][NextDel]_vars

\* C20: a blog DELETE by an admin on a stored blog removes the document and
\* answers 200 whether the deletion of its image asset succeeds or fails
C20_DeleteDespiteAssetFailure ==
  [][(/\ resp' # resp
      /\ resp'.op = "deleteBlog"
      /\ resp'.status \notin {401, 403}
      /\ BlogById(blogs, resp'.target) # {})
       => /\ resp'.status = 200
          /\ blogs' = RemoveBlog(blogs, resp'.target)
          /\ BlogById(blogs', resp'.target) = {}]_vars

\* a delete whose asset deletion failed was answered 200 and removed the blog,
\* while another blog stays stored
C20_Witness ==
  /\ resp.op = "deleteBlog" /\ resp.asset = "failed" /\ resp.status = 200
  /\ BlogById(blogs, resp.target) = {}
  /\ blogs # <<>>

---------------------------------------------------------------------------
(* Store failures in the read handlers: the catch blocks of the listings and
   of the lookups by id and by slug *)

MaxFailBlogs == 1

\* what a rejected store operation throws: err.name, and whether err.message
\* includes "buffering timed out" (mongoose's timeout error is a MongooseError)
StoreErrors ==
  {[name |-> "MongooseError", timedOut |-> TRUE],
   [name |-> "MongoServerError", timedOut |-> FALSE]}

\* the read routes of a revision of the blog router
ReadOps(rev) == Endpoints(rev) \cup {"byId", "bySlug"}

\* the status the catch block of a read handler answers with: handleError in
\* r004; in r003 the general listing names the timeout in its message but
\* answers 500 in both branches, and the other handlers do not look at the error
CatchStatus(rev, op, err) ==
  CASE rev = "r004" -> (IF err.timedOut THEN 504 ELSE 500)
    [] rev = "r003" /\ op = "general" ->
         (IF err.name = "MongooseError" /\ err.timedOut THEN 500 ELSE 500)
    [] OTHER -> 500

\* a read request whose store operation rejects with err
FailedRead(op, rev, tok, err) ==
  /\ op \in ReadOps(rev)
  /\ LET gate == IF op = "scheduled" THEN AdminGate(tok, users) ELSE 0
         base == [NoResp EXCEPT !.op = op, !.rev = rev, !.at = now, !.tok = tok]
     IN resp' = IF gate # 0
                THEN [base EXCEPT !.status = gate, !.fields = {"message"}]
                ELSE [base EXCEPT !.status = CatchStatus(rev, op, err),
                                  !.fields = {"success", "message", "error"},
                                  !.err = err]
  /\ UNCHANGED <<now, blogs, categories, authors, users, nextBlogId, nextRefId, nextUserId, procs, conn, assets>>

NextFailCreate ==
  /\ nextBlogId <= MaxFailBlogs
  /\ \E st \in {"draft", "published"} :
       CreateBlog(AdminToken, [ValidBody EXCEPT !.status = Some(st)])

NextFailList ==
  \E rev \in Revisions : \E ep \in Endpoints(rev) : ListBlogs(ep, rev, NoQuery, AdminToken)

NextFailRead ==
  \E rev \in Revisions, tok \in {AdminToken, TokenFor(2)}, err \in StoreErrors :
    \E op \in ReadOps(rev) : FailedRead(op, rev, tok, err)

NextFail == NextFailCreate \/ NextFailList \/ NextFailRead \/ Tick

SpecFail == InitBoot /\ [][NextFail]_vars

\* C21: a listing or lookup request whose store operation fails with the
\* timeout error is answered 504, and 500 is answered only for other failures
C21_TimeoutIs504 ==
  (resp.err # NoError /\ resp.op \in {"general", "scheduled", "published", "featured", "byId", "bySlug"})
    => /\ (resp.err.timedOut => resp.status = 504)
       /\ (resp.status = 500 => ~resp.err.timedOut)

---------------------------------------------------------------------------
(* Audit stamps: creates and updates through every router revision while
   the clock advances *)

MaxAuditBlogs == 1

\* update requests: nothing supplied, a new title, the featured flag set
AuditBodies ==
  {NoBody,
   [NoBody EXCEPT !.title = Some(<<"y", "o">>)],
   [NoBody EXCEPT !.isFeatured = Some(TRUE)]}

NextAuditCreate ==
  /\ nextBlogId <= MaxAuditBlogs
  /\ CreateBlog(AdminToken, ValidBody)

NextAuditUpdate ==
  \E id \in 1..MaxAuditBlogs, body \in AuditBodies : UpdateBlog(AdminToken, id, body)

NextAuditSimpleUpdate ==
  \E id \in 1..MaxAuditBlogs, body \in AuditBodies : SimpleUpdateBlog(AdminToken, id, body)

NextAuditLegacyUpdate ==
  \E id \in 1..MaxAuditBlogs, body \in AuditBodies : LegacyUpdateBlog(AdminToken, id, body)

NextAudit ==
  NextAuditCreate \/ NextAuditUpdate \/ NextAuditSimpleUpdate \/ NextAuditLegacyUpdate \/ Tick

SpecAudit == InitBoot /\ [][NextAudit]_vars

\* C22: the createdAt of a stored blog never changes, a save that changes the
\* blog sets its updatedAt to the instant of the save, so that updatedAt never
\* decreases, and updatedAt is never before createdAt
C22_AuditStamps ==
  /\ [](\A b \in Range(blogs) : b.createdAt <= b.updatedAt)
  /\ [][\A i \in 1..Len(blogs), j \in 1..Len(blogs') :
          blogs[i].id = blogs'[j].id
            => /\ blogs'[j].createdAt = blogs[i].createdAt
               /\ blogs'[j].updatedAt >= blogs[i].updatedAt
               /\ (blogs'[j] # blogs[i] => blogs'[j].updatedAt = now)]_vars

\* an update answered 200 that changed a blog created at an earlier instant
C22_Witness ==
  /\ resp.op = "updateBlog" /\ resp.status = 200
  /\ \E b \in Range(blogs) :
       /\ b.id = resp.target
       /\ b.updatedAt = resp.at
       /\ b.createdAt < b.updatedAt
       /\ b.title = <<"y", "o">>

---------------------------------------------------------------------------
(* Route dispatch of the blog router: the GET routes in the order of their
   registration, and the lookup by id *)

MaxRouteBlogs == 2

\* the path parameters of a route pattern
Params == {":id", ":slug"}

\* the GET routes of a router revision, each a sequence of path segments, in
\* the order in which the file registers them
GetRoutes(rev) ==
  CASE rev = "r003" ->
         << <<>>, <<"scheduled">>, <<"published">>, <<"featured">>, <<":id">>,
            <<"slug", ":slug">>, <<"stats", "optimization">>, <<":id", "responsive-urls">> >>
    [] rev = "r004" ->
         << <<>>, <<"published">>, <<"featured">>, <<":id">>, <<"slug", ":slug">>,
            <<"stats", "optimization">> >>
    [] OTHER ->
         << <<>>, <<":id">>, <<"slug", ":slug">>, <<"featured">> >>

\* a route matches a path of as many segments, a parameter matching any segment
RouteMatches(route, path) ==
  /\ Len(route) = Len(path)
  /\ \A i \in 1..Len(route) : route[i] \in Params \/ route[i] = path[i]

\* the first registered route that matches; <<"*">> when none does
Dispatch(rev, path) ==
  LET routes == GetRoutes(rev)
      hits == {i \in 1..Len(routes) : RouteMatches(routes[i], path)}
  IN IF hits = {} THEN <<"*">>
     ELSE routes[CHOOSE i \in hits : \A j \in hits : i <= j]

\* the handler registered for a route of at most one segment
RouteOp(route) ==
  CASE route = <<>> -> "general"
    [] route = <<":id">> -> "byId"
    [] Len(route) = 1 -> route[1]
    [] OTHER -> "other"

\* the path segments that are ids of documents (24 hexadecimal digits), and the
\* document each one names
ObjectIds == {"id1", "id2"}

IdOf(seg) == CASE seg = "id1" -> 1 [] seg = "id2" -> 2 [] OTHER -> 0

\* GET /api/blogs/:id: findById rejects with a CastError for a parameter that
\* is not an id, which the handler's catch answers with 500
IdResponse(rev, seg, bs) ==
  LET found == BlogById(bs, IdOf(seg))
      base == [NoResp EXCEPT !.op = "byId", !.rev = rev, !.at = now]
  IN IF seg \notin ObjectIds
     THEN [base EXCEPT !.status = 500, !.fields = {"success", "message", "error"},
                       !.err = [name |-> "CastError", timedOut |-> FALSE]]
     ELSE IF found = {}
     THEN [base EXCEPT !.status = 404, !.fields = {"success", "message"}]
     ELSE [base EXCEPT !.status = 200, !.fields = {"success", "blog"},
                       !.target = (CHOOSE b \in found : TRUE).id]

GetById(rev, seg) ==
  /\ resp' = [IdResponse(rev, seg, blogs) EXCEPT !.path = <<seg>>]
  /\ UNCHANGED <<now, blogs, categories, authors, users, nextBlogId, nextRefId, nextUserId, procs, conn, assets>>

\* a GET request to the blog router for a path of at most one segment
GetPath(rev, path, q, tok) ==
  /\ Len(path) <= 1
  /\ LET op == RouteOp(Dispatch(rev, path))
         gate == IF op = "scheduled" THEN AdminGate(tok, users) ELSE 0
         base == [NoResp EXCEPT !.op = op, !.rev = rev, !.q = q, !.at = now]
         answer == IF op = "byId" THEN IdResponse(rev, path[1], blogs)
                   ELSE IF gate # 0 THEN [base EXCEPT !.status = gate, !.fields = {"message"}]
                   ELSE ListResponse(op, rev, q, now, blogs)
     IN resp' = [answer EXCEPT !.path = path, !.tok = tok]
  /\ UNCHANGED <<now, blogs, categories, authors, users, nextBlogId, nextRefId, nextUserId, procs, conn, assets>>

RoutePaths ==
  {<<>>, <<"featured">>, <<"published">>, <<"scheduled">>, <<"id1">>, <<"id2">>}

NextRouteCreate ==
  /\ nextBlogId <= MaxRouteBlogs
  /\ \E f \in BOOLEAN : CreateBlog(AdminToken, [ValidBody EXCEPT !.isFeatured = Some(f)])

NextRouteGet ==
  \E rev \in Revisions, path \in RoutePaths, tok \in {NoToken, AdminToken} :
    GetPath(rev, path, NoQuery, tok)

NextRoute == NextRouteCreate \/ NextRouteGet

SpecRoute == InitBoot /\ [][NextRoute]_vars

\* the listing routes a revision registers under a fixed one-segment path
DefinedListings(rev) ==
  {name \in {"featured", "published", "scheduled"} :
     \E i \in 1..Len(GetRoutes(rev)) : GetRoutes(rev)[i] = <<name>>}

\* C23: a GET of /featured, /published or /scheduled, on a router that defines
\* the route, is served by that listing handler and not by the /:id handler,
\* and so answers with the listing envelope and not with a lookup error
C23_ListingRouteDispatch ==
  (Len(resp.path) = 1 /\ resp.path[1] \in DefinedListings(resp.rev))
    => /\ resp.op = resp.path[1]
       /\ resp.status \in {200, 401, 403}
       /\ (resp.status = 200 => {"blogs", "totalCount"} \subseteq resp.fields)

---------------------------------------------------------------------------
(* Scheduled publication: blogs created with a publish date, then only the
   clock and read requests *)

MaxSchedBlogs == 1

NextSchedCreate ==
  /\ nextBlogId <= MaxSchedBlogs
  /\ \E d \in PublishDates, st \in {"published", "draft"} :
       CreateBlog(AdminToken, [ValidBody EXCEPT !.publishDate = Some(d), !.status = Some(st)])

NextSchedList ==
  \/ \E tok \in {AdminToken, TokenFor(2)} : ListBlogs("scheduled", "r003", NoQuery, tok)
  \/ ListBlogs("published", "r003", NoQuery, NoToken)

NextSchedSlug == \E s \in StoredSlugs : GetBySlug("r003", s)

NextSched == NextSchedCreate \/ Tick \/ NextSchedList \/ NextSchedSlug

SpecSched == InitBoot /\ [][NextSched]_vars

\* the clock does not stop
SpecSchedLive == SpecSched /\ WF_vars(Tick)

\* what a request made in the current state would be answered
InListing(ep, id) == id \in Range(ListResponse(ep, "r003", NoQuery, now, blogs).blogs)

SlugAnswers200(b) == SlugResponse("r003", b.slug, now, blogs).status = 200

\* the publish date of the stored blog id, -1 if there is none
PublishDateOf(id) ==
  IF \E b \in Range(blogs) : b.id = id /\ IsSome(b.publishDate)
  THEN (CHOOSE b \in Range(blogs) : b.id = id).publishDate[1]
  ELSE -1

\* C24: a published blog with publish date d is in the scheduled listing
\* exactly while now < d and in the published listing exactly while now >= d,
\* so in exactly one of them; the slug lookup answers 200 exactly while it is
\* in the published listing; once in the published listing it stays there; and
\* a blog in the scheduled listing is eventually in the published one (for
\* every d the clock of the model reaches)
C24_ScheduledBecomesPublished ==
  /\ [](\A b \in Range(blogs) :
          (b.status = "published" /\ IsSome(b.publishDate))
            => /\ (InListing("scheduled", b.id) <=> now < b.publishDate[1])
               /\ (InListing("published", b.id) <=> now >= b.publishDate[1])
               /\ (InListing("scheduled", b.id) <=> ~InListing("published", b.id))
               /\ (SlugAnswers200(b) <=> InListing("published", b.id)))
  /\ [][\A id \in 1..MaxSchedBlogs :
          InListing("published", id) => InListing("published", id)']_vars
  /\ \A id \in 1..MaxSchedBlogs :
       (InListing("scheduled", id) /\ PublishDateOf(id) <= StartTime + MaxTime)
         ~> InListing("published", id)

\* the slug lookup answers 200 for a blog at the instant of its publish date,
\* which was still ahead when the blog was created
C24_Witness ==
  /\ resp.op = "bySlug" /\ resp.status = 200 /\ resp.at = now
  /\ \E b \in Range(blogs) :
       /\ b.id = resp.target
       /\ b.createdAt < b.publishDate[1]
       /\ b.publishDate[1] = now
       /\ InListing("published", b.id)

---------------------------------------------------------------------------
(* Concurrent signups: the handler of POST /api/auth/signup step by step, one
   step per await, from the empty user collection *)

MaxSignups == 2

\* a request slot of the signup handler: where it stands, the email it signs
\* up, the user it created, what its count returned, and its answer
SignupIdle ==
  [pc |-> "idle", email |-> "", userId |-> 0, count |-> 0, status |-> 0, role |-> ""]

InitRace ==
  /\ now = StartTime
  /\ blogs = <<>>
  /\ categories = {}
  /\ authors = {}
  /\ users = {}
  /\ nextBlogId = 1
  /\ nextRefId = 1
  /\ nextUserId = 1
  /\ resp = NoResp
  /\ procs = [p \in 1..MaxSignups |-> SignupIdle]
  /\ conn = NoConn
  /\ assets = NoAssets

RaceFrame == UNCHANGED <<now, blogs, categories, authors, nextBlogId, nextRefId, conn, assets>>

SignupAnswer(p, status, role) ==
  [NoResp EXCEPT !.op = "signup", !.at = now, !.status = status, !.role = role,
                 !.userId = procs[p].userId,
                 !.fields = IF status = 201 THEN {"user", "token"} ELSE {"success", "message"}]

\* await User.findOne({ email }), and the 400
SignupFindExisting(p, email) ==
  /\ procs[p].pc = "idle"
  /\ IF \E u \in users : u.email = email
     THEN /\ procs' = [procs EXCEPT ![p].pc = "done", ![p].email = email, ![p].status = 400]
          /\ resp' = SignupAnswer(p, 400, "")
     ELSE /\ procs' = [procs EXCEPT ![p].pc = "create", ![p].email = email]
          /\ UNCHANGED resp
  /\ UNCHANGED <<users, nextUserId>>
  /\ RaceFrame

\* await User.create({ name, email, password }): the role is the default
SignupCreateUser(p) ==
  /\ procs[p].pc = "create"
  /\ users' = users \cup {[id |-> nextUserId, email |-> procs[p].email, role |-> DefaultRole]}
  /\ nextUserId' = nextUserId + 1
  /\ procs' = [procs EXCEPT ![p].pc = "count", ![p].userId = nextUserId]
  /\ UNCHANGED resp
  /\ RaceFrame

\* await User.countDocuments({}), and the answer of a user that is not promoted
SignupCountUsers(p) ==
  /\ procs[p].pc = "count"
  /\ LET userCount == Cardinality(users)
     IN IF SignupRole(userCount) = "admin"
        THEN /\ procs' = [procs EXCEPT ![p].pc = "promote", ![p].count = userCount]
             /\ UNCHANGED resp
        ELSE /\ procs' = [procs EXCEPT ![p].pc = "done", ![p].count = userCount,
                                       ![p].status = 201, ![p].role = DefaultRole]
             /\ resp' = [SignupAnswer(p, 201, DefaultRole) EXCEPT !.blogsCount = userCount]
  /\ UNCHANGED <<users, nextUserId>>
  /\ RaceFrame

\* user.role = 'admin'; await user.save(), and the answer
SignupPromote(p) ==
  /\ procs[p].pc = "promote"
  /\ users' = {IF u.id = procs[p].userId THEN [u EXCEPT !.role = "admin"] ELSE u : u \in users}
  /\ procs' = [procs EXCEPT ![p].pc = "done", ![p].status = 201, ![p].role = "admin"]
  /\ resp' = SignupAnswer(p, 201, "admin")
  /\ UNCHANGED nextUserId
  /\ RaceFrame

\* each request signs up an email of its own
NextRaceFind ==
  \E p \in 1..MaxSignups, e \in Emails :
    /\ \A q \in 1..MaxSignups : procs[q].email # e
    /\ SignupFindExisting(p, e)

NextRaceCreate == \E p \in 1..MaxSignups : SignupCreateUser(p)

NextRaceCount == \E p \in 1..MaxSignups : SignupCountUsers(p)

NextRacePromote == \E p \in 1..MaxSignups : SignupPromote(p)

NextRace == NextRaceFind \/ NextRaceCreate \/ NextRaceCount \/ NextRacePromote

SpecRace == InitRace /\ [][NextRace]_vars

\* C25: once two or more concurrent signups against the empty user
\* collection have all completed, exactly one of the created users is admin
C25_OneAdminAfterRace ==
  (MaxSignups >= 2 /\ \A p \in 1..MaxSignups : procs[p].pc = "done")
    => Cardinality({u \in users : u.role = "admin"}) = 1

---------------------------------------------------------------------------
(* Public reads: drafts, future-dated and visible blogs, and every read route
   that asks for no token *)

MaxPublicBlogs == 2

NextPublicCreate ==
  /\ nextBlogId <= MaxPublicBlogs
  /\ \/ CreateBlog(AdminToken, [ValidBody EXCEPT !.isFeatured = Some(TRUE)])
     \/ CreateBlog(AdminToken, [ValidBody EXCEPT !.isFeatured = Some(TRUE),
                                                 !.status = Some("draft")])
     \/ CreateBlog(AdminToken, [ValidBody EXCEPT !.isFeatured = Some(TRUE),
                                                 !.publishDate = Some(StartTime + MaxTime + 1)])

NextPublicList ==
  \E rev \in Revisions, st \in {None, Some("draft")} :
    \E ep \in Endpoints(rev) \ {"scheduled"} :
      ListBlogs(ep, rev, [NoQuery EXCEPT !.status = st], NoToken)

NextPublicById == \E rev \in Revisions, seg \in ObjectIds : GetById(rev, seg)

NextPublicSlug == \E rev \in Revisions, s \in StoredSlugs : GetBySlug(rev, s)

NextPublic == NextPublicCreate \/ NextPublicList \/ NextPublicById \/ NextPublicSlug \/ Tick

SpecPublic == InitBoot /\ [][NextPublic]_vars

\* the blogs a read answer carries
Returned(r) ==
  IF r.op \in {"byId", "bySlug"} THEN {r.target} ELSE Range(r.blogs)

\* C26: a read answered without a token (general, featured and published
\* listing, lookup by id and by slug) carries only blogs that are publicly
\* visible at the instant of the request: no draft and no published blog
\* whose publish date is still ahead
C26_PublicReadsOnlyVisible ==
  (/\ resp.op \in {"general", "featured", "published", "byId", "bySlug"}
   /\ resp.tok = NoToken
   /\ resp.status = 200)
    => \A b \in Range(blogs) : b.id \in Returned(resp) => PubliclyVisible(b, resp.at)

---------------------------------------------------------------------------
(* Listing snapshots: a listing handler step by step, its page query and its
   count query, with creates and deletes of other requests in between *)

MaxListers == 1

MaxSnapBlogs == 2

\* a request slot of a listing handler: where it stands, its route and query,
\* the instant it read the clock, and the page its first query returned
ListIdle ==
  [pc |-> "idle", ep |-> "none", rev |-> "none", q |-> NoQuery, at |-> 0, docs |-> <<>>]

InitSnap ==
  /\ now = StartTime
  /\ blogs = <<>>
  /\ categories = {[id |-> 1, name |-> <<"a">>]}
  /\ authors = {[id |-> 2, name |-> <<"b">>]}
  /\ users = {[id |-> 1, email |-> "e1", role |-> "admin"],
              [id |-> 2, email |-> "e2", role |-> DefaultRole]}
  /\ nextBlogId = 1
  /\ nextRefId = 3
  /\ nextUserId = 3
  /\ resp = NoResp
  /\ procs = [p \in 1..MaxListers |-> ListIdle]
  /\ conn = NoConn
  /\ assets = NoAssets

\* const blogs = await query: the page of the matches stored at this moment
ListQuery(p, ep, rev, q) ==
  /\ procs[p].pc = "idle"
  /\ ep \in Endpoints(rev) \ {"scheduled"}
  /\ LET answer == ListResponse(ep, rev, q, now, blogs)
     IN IF answer.status # 200
        THEN /\ resp' = answer
             /\ UNCHANGED procs
        ELSE /\ procs' = [procs EXCEPT ![p] = [pc |-> "count", ep |-> ep, rev |-> rev, q |-> q,
                                               at |-> now, docs |-> answer.blogs]]
             /\ UNCHANGED resp
  /\ UNCHANGED <<now, blogs, categories, authors, users, nextBlogId, nextRefId, nextUserId, conn, assets>>

\* const totalCount = await Blog.countDocuments(filter) over the documents
\* stored at this later moment, and the answer
ListCount(p) ==
  /\ procs[p].pc = "count"
  /\ LET s == procs[p]
         answer == ListResponse(s.ep, s.rev, s.q, s.at, blogs)
     IN resp' = [answer EXCEPT !.blogs = s.docs]
  /\ procs' = [procs EXCEPT ![p] = ListIdle]
  /\ UNCHANGED <<now, blogs, categories, authors, users, nextBlogId, nextRefId, nextUserId, conn, assets>>

NextSnapQuery ==
  \E p \in 1..MaxListers, rev \in Revisions, l \in {None, Some(1)} :
    \E ep \in Endpoints(rev) : ListQuery(p, ep, rev, [NoQuery EXCEPT !.limit = l])

NextSnapCount == \E p \in 1..MaxListers : ListCount(p)

NextSnapCreate ==
  /\ nextBlogId <= MaxSnapBlogs
  /\ CreateBlog(AdminToken, ValidBody)

NextSnapDelete ==
  \E id \in 1..MaxSnapBlogs : DeleteBlog(AdminToken, id)

NextSnap == NextSnapQuery \/ NextSnapCount \/ NextSnapCreate \/ NextSnapDelete

SpecSnap == InitSnap /\ [][NextSnap]_vars

\* C27: a listing answer never carries more blogs than its totalCount, also
\* when other requests create or delete blogs between the handler's page
\* query and its count query
C27_PageWithinTotal ==
  (resp.op \in {"general", "published", "featured"} /\ resp.status = 200)
    => Len(resp.blogs) <= resp.totalCount


\* ---------------------------------------------------------------------------
\* Assets of the external image service under create, update and delete
\* ---------------------------------------------------------------------------

MaxAssetBlogs == 2

\* a complete create request, and one whose image was uploaded but whose
\* title is missing
AssetCreateBodies == {ValidBody, [ValidBody EXCEPT !.title = None]}

\* an update with a replacement image, and one without a file
AssetUpdateBodies == {[NoBody EXCEPT !.file = TRUE], [NoBody EXCEPT !.isFeatured = Some(TRUE)]}

NextAssetCreate ==
  /\ nextBlogId <= MaxAssetBlogs
  /\ \E body \in AssetCreateBodies : CreateBlog(AdminToken, body)

NextAssetUpdate ==
  \E id \in 1..MaxAssetBlogs, body \in AssetUpdateBodies : UpdateBlog(AdminToken, id, body)

NextAssetDelete ==
  \E id \in 1..MaxAssetBlogs, destroyOk \in BOOLEAN : DeleteBlogWith("r003", AdminToken, id, destroyOk)

NextAsset == NextAssetCreate \/ NextAssetUpdate \/ NextAssetDelete \/ Tick

SpecAsset == InitBoot /\ [][NextAsset]_vars

\* the blogs of the store whose current image is held by the image service
AssetOwners == {b \in Range(blogs) : b.cloudinaryPublicId}

\* C28: after any sequence of create, update and delete requests every asset
\* the image service holds is the current asset of exactly one stored blog:
\* the service holds no orphaned image, and every blog id it holds an image
\* for is the id of one stored blog that refers to an image
C28_NoAssetLeak ==
  /\ ~assets.orphaned
  /\ \A a \in assets.current : Cardinality({b \in AssetOwners : b.id = a}) = 1


\* ---------------------------------------------------------------------------
\* Connection attempts that fail: calls of dbConnect and of connectDB while
\* the store cannot be reached, and after it has become reachable
\* ---------------------------------------------------------------------------

MaxCalls == 3

RetryRoutines == {"dbConnect", "server"}

InitRetry ==
  /\ now = StartTime
  /\ blogs = <<>>
  /\ categories = {}
  /\ authors = {}
  /\ users = {}
  /\ nextBlogId = 1
  /\ nextRefId = 1
  /\ nextUserId = 1
  /\ resp = NoResp
  /\ procs = [p \in 1..MaxCalls |-> Waiting]
  /\ \E impl \in RetryRoutines, up \in BOOLEAN :
       conn = [NoConn EXCEPT !.impl = impl, !.reachable = up]
  /\ assets = NoAssets

\* the promise of mongoose.connect settles: it resolves when the store is
\* reachable; otherwise it rejects after serverSelectionTimeoutMS, every call
\* awaiting it throws (dbConnect has no catch, connectDB logs and rethrows),
\* and a promise kept in cached.promise stays there, rejected
ConnectSettles ==
  /\ conn.readyState = 2
  /\ IF conn.reachable
     THEN /\ conn' = [conn EXCEPT !.readyState = 1]
          /\ UNCHANGED procs
     ELSE /\ conn' = [conn EXCEPT !.readyState = 0, !.rejected = conn.cachedPromise]
          /\ procs' = [p \in DOMAIN procs |->
                         IF procs[p].pc = "awaitConnect" THEN [pc |-> "failed"] ELSE procs[p]]
  /\ DbFrame

\* cached.conn = await cached.promise, the cached promise being rejected:
\* the await throws and dbConnect leaves cached.promise as it is
DbConnectRejected(p) ==
  /\ conn.impl = "dbConnect" /\ procs[p].pc = "awaitConnect" /\ conn.rejected
  /\ procs' = [procs EXCEPT ![p].pc = "failed"]
  /\ UNCHANGED conn
  /\ DbFrame

\* the store becomes reachable
StoreRecovers ==
  /\ ~conn.reachable
  /\ conn' = [conn EXCEPT !.reachable = TRUE]
  /\ UNCHANGED procs
  /\ DbFrame

RetryCall(p) ==
  \/ DbConnectEnter(p) \/ DbConnectResume(p) \/ DbConnectRejected(p)
  \/ ServerConnectEnter(p) \/ ServerConnectResume(p)

NextRetry ==
  \/ \E p \in 1..MaxCalls :
       \/ DbConnectEnter(p) \/ DbConnectResume(p) \/ DbConnectRejected(p)
       \/ ServerConnectEnter(p) \/ ServerConnectResume(p)
  \/ ConnectSettles
  \/ StoreRecovers

SpecRetry == InitRetry /\ [][NextRetry]_vars

\* every call that is made runs to its end, and every attempt settles
SpecRetryLive ==
  SpecRetry /\ WF_vars(ConnectSettles) /\ \A p \in 1..MaxCalls : WF_vars(RetryCall(p))

\* some call has failed
SomeCallFailed == \E p \in DOMAIN procs : procs[p].pc = "failed"

\* call p is started, by dbConnect or by connectDB
CallEnters(p) == procs[p].pc = "idle" /\ procs'[p].pc # "idle"

\* C29: a failed connection attempt is not permanent: a call made after a
\* call has failed, with no attempt in flight, starts a new connection
\* attempt, and while the store is reachable and a call is still to be made
\* some call eventually returns a connection
C29_FailedConnectRetried ==
  /\ [][\A p \in 1..MaxCalls :
          (SomeCallFailed /\ conn.readyState = 0 /\ CallEnters(p))
            => conn'.connects = conn.connects + 1]_vars
  /\ ((conn.reachable /\ \E p \in 1..MaxCalls : procs[p].pc = "idle")
        ~> (\E p \in 1..MaxCalls : procs[p].pc = "done"))


\* ---------------------------------------------------------------------------
\* Tokens of deleted users: signups, user deletions and requests to routes
\* behind authenticate, carrying any token issued so far
\* ---------------------------------------------------------------------------

MaxRevokeUsers == 3

MaxRevokeRefs == 1

\* the tokens in circulation: signup hands one to every user it creates
IssuedTokens == {TokenFor(u) : u \in 1..(nextUserId - 1)}

NextRevokeSignup == nextUserId <= MaxRevokeUsers /\ \E e \in Emails : Signup(e)

NextRevokeDeleteUser ==
  \E tok \in IssuedTokens, id \in 1..MaxRevokeUsers : DeleteUser(tok, id)

NextRevokeProfile == \E tok \in IssuedTokens \cup {NoToken} : GetProfile(tok)

NextRevokeCategory ==
  /\ nextRefId <= MaxRevokeRefs
  /\ \E tok \in IssuedTokens : CreateCategory(tok, Some(<<"a">>))

NextRevoke ==
  NextRevokeSignup \/ NextRevokeDeleteUser \/ NextRevokeProfile \/ NextRevokeCategory

SpecRevoke == InitEmpty /\ [][NextRevoke]_vars

\* the token was issued and its user is no longer stored
Revoked(tok) == tok \in IssuedTokens /\ UserById(users, tok) = {}

\* the operations of SpecRevoke whose routes mount authenticate
AuthenticatedOps == {"deleteUser", "profile", "createCategory"}

\* C30: a request to an authenticated route that carries the token of a
\* deleted user is answered 401 and changes nothing, a deleted user stays
\* deleted, and no user is removed by a request carrying its own token
C30_TokenDiesWithUser ==
  /\ []((resp.op \in AuthenticatedOps /\ Revoked(resp.tok)) => resp.status = 401)
  /\ [][\A tok \in 1..MaxRevokeUsers :
          Revoked(tok) =>
            /\ UserById(users', tok) = {}
            /\ resp'.tok = tok => UNCHANGED <<blogs, categories, authors, users>>]_vars
  /\ [][\A u \in users :
          u \notin users' => (resp'.op = "deleteUser" /\ resp'.tok # TokenFor(u.id))]_vars
  /\ []((resp.op = "deleteUser" /\ resp.target = resp.tok) => resp.status # 200)

C30_Witness ==
  /\ resp.op = "profile"
  /\ Revoked(resp.tok)
  /\ resp.status = 401

====
